---- MODULE Spec2Model ----
(***************************************************************************)
(* Shelterkin: the instance generation system (recurrence matcher,         *)
(* local-time resolver, generation window, generation engine, cleanup and  *)
(* reconciliation), modelled as a state machine over one relational store. *)
(*                                                                         *)
(* Time is counted in minutes since 2026-03-07T00:00:00Z (a Saturday).     *)
(* A calendar date is a day number: day 0 is 2026-03-07, day 1 is          *)
(* 2026-03-08, and so on.  A time of day is a pair <<hour, minute>>, the   *)
(* result of splitting "HH:MM" at the colon.                               *)
(***************************************************************************)
EXTENDS Integers, FiniteSets, Sequences, TLC

VARIABLES
    now,                          \* time.Now().UTC(), in minutes
    timezone,                     \* care_recipients.timezone, per recipient
    task_templates,               \* task_templates rows, by id
    medications,                  \* medications rows, by id
    medication_schedules,         \* medication_schedules rows, by id
    shift_templates,              \* shift_templates rows, by id
    tasks,                        \* tasks rows
    medication_administrations,   \* medication_administrations rows
    shifts,                       \* shifts rows
    lastOp,                       \* the last operation that ran, with its result
    ops,                          \* caregiver and template operations so far
    runs,                         \* generation runs in flight (concurrent writers)
    probe,                        \* inputs and result of a resolver call
    checker,                      \* the status checker: high-water mark, pass in
                                  \* flight, notifications sent, handoff records
    proc,                         \* the process: key-rotation flag, startup phase,
                                  \* recipients whose generation fails
    workers,                      \* the background goroutines and the context
                                  \* they are started with
    auth,                         \* users, sessions, login attempts and stored
                                  \* notifications; result of the last auth call
    config                        \* config rows, by key

vars == <<now, timezone, task_templates, medications, medication_schedules,
          shift_templates, tasks, medication_administrations, shifts,
          lastOp, ops, runs, probe, checker, proc, workers, auth, config>>

(***************************************************************************)
(* Bounds of the model.                                                    *)
(***************************************************************************)
\* Number of steps the clock takes in one behaviour with template operations.
MaxSteps == 3
\* Number of steps the clock takes in one behaviour of the scheduler alone.
MaxGenSteps == 9
\* Number of caregiver and template operations in one behaviour.
MaxOps == 2
\* Largest day number handed to the resolver on its own.
MaxProbeDay == 4
\* Passes of the status checker.
MaxPasses == 2
\* Number of steps the clock takes in one behaviour with failing recipients.
MaxFailSteps == 1
\* Requests the HTTP server answers in one behaviour.
MaxRequests == 2

(***************************************************************************)
(* Civil time.                                                             *)
(***************************************************************************)
MinutesPerHour == 60
MinutesPerDay == 24 * MinutesPerHour

NULL == "NULL"

\* The IANA zones known to time.LoadLocation in this model.  Each zone is a
\* set of periods [start, end) in UTC minutes with the offset in force.
\* America/New_York leaves EST (UTC-5) for EDT (UTC-4) at 2026-03-08T07:00Z.
FarFuture == 1000 * MinutesPerDay
FarPast == 0 - FarFuture
NewYorkSpringForward == MinutesPerDay + 7 * MinutesPerHour

ZonePeriods(tzName) ==
    CASE tzName = "UTC" ->
            {[start |-> FarPast, end |-> FarFuture, offset |-> 0]}
      [] tzName = "America/New_York" ->
            {[start |-> FarPast, end |-> NewYorkSpringForward,
              offset |-> 0 - 5 * MinutesPerHour],
             [start |-> NewYorkSpringForward, end |-> FarFuture,
              offset |-> 0 - 4 * MinutesPerHour]}
      [] tzName = "Asia/Tokyo" ->
            {[start |-> FarPast, end |-> FarFuture, offset |-> 9 * MinutesPerHour]}
      [] OTHER -> {}

Zones == {"UTC", "America/New_York", "Asia/Tokyo"}

\* Location.lookup: the period of the zone that holds the UTC minute t.
Lookup(tzName, t) ==
    CHOOSE p \in ZonePeriods(tzName) : p.start <= t /\ t < p.end

\* Faulty variant: the wall clock is always taken to be five hours behind UTC.
resolveLocalTimeToUTC_fixedOffset(date, timeOfDay, tzName) ==
    LET unix == date * MinutesPerDay + timeOfDay[1] * MinutesPerHour + timeOfDay[2]
    IN  unix + 5 * MinutesPerHour

\* time.Date(year, month, day, hour, minute, 0, 0, loc).UTC(): the wall clock
\* is first read as if it were UTC, the offset found there is subtracted, and
\* when the result falls outside the period that offset belongs to, the offset
\* in force at the result is used instead.
resolveLocalTimeToUTC(date, timeOfDay, tzName) ==
    LET unix == date * MinutesPerDay + timeOfDay[1] * MinutesPerHour + timeOfDay[2]
        p == Lookup(tzName, unix)
        utc == unix - p.offset
        offset == IF utc < p.start \/ utc >= p.end
                  THEN Lookup(tzName, utc).offset
                  ELSE p.offset
    IN  unix - offset

\* time.Now().In(loc): the wall clock of the UTC minute t, in minutes.
LocalWallClock(tzName, t) == t + Lookup(tzName, t).offset

\* The calendar date (day number) of the UTC minute t in the zone.
LocalDate(tzName, t) == LocalWallClock(tzName, t) \div MinutesPerDay

(***************************************************************************)
(* Recurrence rules.                                                       *)
(***************************************************************************)
WeekdayNames == <<"sun", "mon", "tue", "wed", "thu", "fri", "sat">>

\* strings.ToLower(date.Weekday().String()[:3]); day 0 is a Saturday.
DayName(date) == WeekdayNames[((date + 6) % 7) + 1]

\* The lengths of the months of 2026.
DaysInMonth == <<31, 28, 31, 30, 31, 30, 31, 31, 30, 31, 30, 31>>

RECURSIVE DaysBefore(_)
DaysBefore(month) ==
    IF month = 1 THEN 0 ELSE DaysBefore(month - 1) + DaysInMonth[month - 1]

\* date.YearDay(); day 0 is the 7th of March 2026, the 66th day of its year.
YearDay(date) == date + 66

\* date.Month(), for the dates of 2026.
MonthOf(date) ==
    CHOOSE month \in 1 .. 12 :
        /\ DaysBefore(month) < YearDay(date)
        /\ YearDay(date) <= DaysBefore(month) + DaysInMonth[month]

\* date.Day(), for the dates of 2026.
DayOfMonth(date) == YearDay(date) - DaysBefore(MonthOf(date))

\* Faulty variant: a configured day past the end of the month is clamped to
\* the month's last day.
MatchesDate_clamped(r, date) ==
    CASE r.frequency = "daily" -> TRUE
      [] r.frequency = "weekly" ->
            IF r.days_of_week = {} THEN TRUE ELSE DayName(date) \in r.days_of_week
      [] r.frequency = "monthly" ->
            DayOfMonth(date) = IF r.day_of_month > DaysInMonth[MonthOf(date)]
                                 THEN DaysInMonth[MonthOf(date)]
                                 ELSE r.day_of_month
      [] OTHER -> FALSE

MatchesDate(r, date) ==
    CASE r.frequency = "daily" -> TRUE
      [] r.frequency = "weekly" ->
            IF r.days_of_week = {} THEN TRUE ELSE DayName(date) \in r.days_of_week
      [] r.frequency = "monthly" -> DayOfMonth(date) = r.day_of_month
      [] OTHER -> FALSE

\* schedule.days_of_week is NULL OR date.weekday in schedule.days_of_week
ScheduleMatchesDate(s, date) ==
    s.days_of_week = NULL \/ DayName(date) \in s.days_of_week

(***************************************************************************)
(* The generation window and the late-instance grace period.               *)
(***************************************************************************)
generation_window_days == 3

lateInstanceGracePeriod == 2 * MinutesPerHour

\* Faulty variant: every occurrence is generated, however late.
shouldGenerateInstance_noGrace(scheduledUTC, t) == TRUE

\* A future instance is always generated, a past one only within the grace
\* period.

shouldGenerateInstance(scheduledUTC, t) ==
    IF scheduledUTC > t THEN TRUE ELSE t - scheduledUTC <= lateInstanceGracePeriod

\* Faulty variant: the window is one day longer.
GetGenerationWindowForRecipient_oneDayMore(tzName, t) ==
    [Start |-> LocalDate(tzName, t),
     End   |-> LocalDate(tzName, t) + generation_window_days + 1]

\* Faulty variant: today is read off the UTC clock.
GetGenerationWindowForRecipient_utcToday(tzName, t) ==
    [Start |-> t \div MinutesPerDay,
     End   |-> (t \div MinutesPerDay) + generation_window_days]

\* GetGenerationWindowForRecipient: Start is today in the recipient's zone,
\* End is Start plus the configured number of days.
GetGenerationWindowForRecipient(tzName, t) ==
    [Start |-> LocalDate(tzName, t),
     End   |-> LocalDate(tzName, t) + generation_window_days]

\* FOR EACH date in dateRange: the dates of [Start, End).
DatesIn(window) == {d \in window.Start .. window.End : d < window.End}

(***************************************************************************)
(* The entities of the model.                                              *)
(***************************************************************************)
RecipientIds == DOMAIN timezone

Rule(freq, times, days, dom) ==
    [frequency |-> freq, times |-> times, days_of_week |-> days, day_of_month |-> dom]

\* Rules a template is created with or edited to.
Rules ==
    {Rule("daily", {<<8, 0>>}, {}, 0),
     Rule("daily", {<<8, 0>>, <<14, 0>>}, {}, 0)}

\* Rules a template is created with when the scheduler runs alone.
LateRules == Rules \cup {Rule("weekly", {<<23, 0>>}, {"sat", "sun"}, 0)}

(***************************************************************************)
(* The uniqueness constraints (Schema Additions) and INSERT OR IGNORE.     *)
(***************************************************************************)
\* Faulty variant: the index is missing.
idx_tasks_dedup_absent(rows, templateId, dueAt) == FALSE

\* idx_tasks_dedup ON tasks(template_id, due_at)
\*     WHERE template_id IS NOT NULL AND deleted_at IS NULL
idx_tasks_dedup(rows, templateId, dueAt) ==
    \E r \in rows : /\ r.template_id = templateId
                    /\ r.due_at = dueAt
                    /\ r.template_id # NULL
                    /\ ~r.deleted

\* Faulty variant: the index is missing.
idx_med_admin_dedup_absent(rows, medicationId, scheduleId, scheduledAt) == FALSE

\* idx_med_admin_dedup ON medication_administrations(medication_id,
\*     schedule_id, scheduled_at) WHERE schedule_id IS NOT NULL
idx_med_admin_dedup(rows, medicationId, scheduleId, scheduledAt) ==
    \E r \in rows : /\ r.medication_id = medicationId
                    /\ r.schedule_id = scheduleId
                    /\ r.scheduled_at = scheduledAt
                    /\ r.schedule_id # NULL

\* Faulty variant: the index is missing.
idx_shifts_dedup_absent(rows, templateId, startsAt) == FALSE

\* idx_shifts_dedup ON shifts(template_id, starts_at)
\*     WHERE template_id IS NOT NULL
idx_shifts_dedup(rows, templateId, startsAt) ==
    \E r \in rows : /\ r.template_id = templateId
                    /\ r.starts_at = startsAt
                    /\ r.template_id # NULL

\* Faulty variant: the generator never looks at the flag.
isKeyRotationInProgress_never == FALSE

\* The key-rotation service has set its flag.
isKeyRotationInProgress == proc.rotation

(***************************************************************************)
(* The generation engine.                                                  *)
(***************************************************************************)
\* FOR EACH date in dateRange: IF recurrence_rule matches this date:
\*   FOR EACH time_of_day in recurrence_rule.times: resolveLocalTimeToUTC
Occurrences(rule, tzName, window) ==
    {resolveLocalTimeToUTC(dt[1], dt[2], tzName) :
        dt \in {x \in DatesIn(window) \X rule.times : MatchesDate(rule, x[1])}}

\* The occurrences a run at minute t attempts to insert.
DueOccurrences(rule, tzName, window, t) ==
    {at \in Occurrences(rule, tzName, window) : shouldGenerateInstance(at, t)}

\* A generated row is told apart from an earlier row of the same key (its id
\* is a fresh ULID) by the number of rows of that key already stored.
TaskRow(rows, id, tpl, at) ==
    [template_id |-> id, care_recipient_id |-> tpl.care_recipient_id,
     due_at |-> at, completed |-> FALSE, skipped |-> FALSE, notes |-> FALSE,
     deleted |-> FALSE, title |-> tpl.title,
     nth |-> Cardinality({r \in rows : r.template_id = id /\ r.due_at = at})]

\* GenerateForTaskTemplate: INSERT OR IGNORE one task per due occurrence;
\* nothing while keys are rotated.
GenerateForTaskTemplate(rows, id, tpl, tzName, window, t) ==
    IF isKeyRotationInProgress THEN {}
    ELSE {TaskRow(rows, id, tpl, at) :
            at \in {a \in DueOccurrences(tpl.rule, tzName, window, t) :
                        ~idx_tasks_dedup(rows, id, a)}}

MedAdminRow(rows, medicationId, scheduleId, recipientId, at) ==
    [medication_id |-> medicationId, schedule_id |-> scheduleId,
     care_recipient_id |-> recipientId, scheduled_at |-> at,
     status |-> "pending", notes |-> FALSE, deleted |-> FALSE,
     nth |-> Cardinality({r \in rows : /\ r.medication_id = medicationId
                                       /\ r.schedule_id = scheduleId
                                       /\ r.scheduled_at = at})]

\* Faulty variant: as-needed medications are generated like the others.
MedicationGenerated_prnToo(m) == ~m.discontinued

\* FOR EACH active, non-discontinued medication: IF medication.is_prn: SKIP.
MedicationGenerated(m) == ~m.discontinued /\ ~m.is_prn

\* The occurrences of one medication schedule in the window.
ScheduleOccurrences(sched, tzName, window) ==
    {resolveLocalTimeToUTC(d, sched.time_of_day, tzName) :
        d \in {x \in DatesIn(window) : ScheduleMatchesDate(sched, x)}}

\* GenerateForMedicationSchedule: INSERT OR IGNORE one administration per due
\* occurrence of the schedule; nothing while keys are rotated.
GenerateForMedicationSchedule(rows, id, sched, recipientId, tzName, window, t) ==
    IF isKeyRotationInProgress THEN {}
    ELSE {MedAdminRow(rows, sched.medication_id, id, recipientId, at) :
            at \in {a \in ScheduleOccurrences(sched, tzName, window) :
                        /\ shouldGenerateInstance(a, t)
                        /\ ~idx_med_admin_dedup(rows, sched.medication_id, id, a)}}

\* startUTC and endUTC of the shift of a date; a shift whose end is not after
\* its start crosses midnight.
ShiftTimes(tpl, tzName, date) ==
    LET startUTC == resolveLocalTimeToUTC(date, tpl.shift_start_time, tzName)
        endUTC == resolveLocalTimeToUTC(date, tpl.shift_end_time, tzName)
    IN  [starts_at |-> startUTC,
         ends_at |-> IF endUTC <= startUTC THEN endUTC + MinutesPerDay ELSE endUTC]

ShiftRow(rows, id, tpl, times) ==
    [template_id |-> id, care_recipient_id |-> tpl.care_recipient_id,
     starts_at |-> times.starts_at, ends_at |-> times.ends_at,
     status |-> "scheduled", notes |-> FALSE, deleted |-> FALSE,
     nth |-> Cardinality({r \in rows : /\ r.template_id = id
                                       /\ r.starts_at = times.starts_at})]

\* Shift generation: INSERT OR IGNORE one shift per matching date; nothing
\* while keys are rotated.
GenerateForShiftTemplate(rows, id, tpl, tzName, window, t) ==
    IF isKeyRotationInProgress THEN {}
    ELSE {ShiftRow(rows, id, tpl, ShiftTimes(tpl, tzName, d)) :
            d \in {x \in DatesIn(window) :
                    /\ MatchesDate(tpl.rule, x)
                    /\ shouldGenerateInstance(ShiftTimes(tpl, tzName, x).starts_at, t)
                    /\ ~idx_shifts_dedup(rows, id, ShiftTimes(tpl, tzName, x).starts_at)}}

\* generateForCareRecipient: every active task template, every active schedule
\* of a medication that is neither discontinued nor PRN, and every active shift
\* template of the recipient, over the recipient's own window.  The result is
\* the rows the transaction inserts.
generateForCareRecipient(recipientId, tzName, window, t) ==
    [tasks |->
        UNION {GenerateForTaskTemplate(tasks, id, task_templates[id], tzName, window, t) :
                 id \in {x \in DOMAIN task_templates :
                            /\ task_templates[x].care_recipient_id = recipientId
                            /\ task_templates[x].is_active}},
     medication_administrations |->
        UNION {GenerateForMedicationSchedule(medication_administrations, id,
                    medication_schedules[id], recipientId, tzName, window, t) :
                 id \in {x \in DOMAIN medication_schedules :
                            LET m == medications[medication_schedules[x].medication_id]
                            IN  /\ m.care_recipient_id = recipientId
                                /\ MedicationGenerated(m)
                                /\ medication_schedules[x].is_active}},
     shifts |->
        UNION {GenerateForShiftTemplate(shifts, id, shift_templates[id], tzName, window, t) :
                 id \in {x \in DOMAIN shift_templates :
                            /\ shift_templates[x].care_recipient_id = recipientId
                            /\ shift_templates[x].is_active}}]

\* time.LoadLocation(tzName) returns no error.
ValidZone(tzName) == ZonePeriods(tzName) # {}

NoWindow == [Start |-> 0, End |-> 0]

\* The window of every recipient at minute t; a recipient whose zone does not
\* load has none.
Windows(tz, t) ==
    [r \in RecipientIds |-> IF ValidZone(tz[r])
                               THEN GetGenerationWindowForRecipient(tz[r], t)
                               ELSE NoWindow]

\* The household of a care recipient.
HouseholdOf(recipientId) == IF recipientId = "r3" THEN "hhB" ELSE "hhA"

HouseholdIds == {HouseholdOf(r) : r \in RecipientIds}

NoRows == [tasks |-> {}, medication_administrations |-> {}, shifts |-> {}]

\* The rows a recipient's transaction has inserted when the stage fails:
\* tasks are generated first, then medication administrations, then shifts.
InsertedBefore(attempted, stage) ==
    CASE stage = "tasks" -> NoRows
      [] stage = "medication_administrations" ->
            [NoRows EXCEPT !.tasks = attempted.tasks]
      [] stage = "shifts" -> [attempted EXCEPT !.shifts = {}]

\* Faulty variant: the rows inserted before the failure stay.
Rollback_keepsInserted(inserted) == inserted

\* The transaction of a failed recipient is rolled back: nothing is committed.
Rollback(inserted) == NoRows

\* generateForCareRecipient inside its transaction: the rows committed and the
\* error returned.  A zone that does not load, or a failing insert, fails the
\* recipient.
TxOutcome(attempted, valid, failedStages) ==
    IF ~valid
      THEN [rows |-> NoRows, err |-> "invalid timezone"]
    ELSE IF failedStages # {}
      THEN [rows |-> Rollback(InsertedBefore(attempted,
                                  CHOOSE stage \in failedStages : TRUE)),
            err |-> "transaction"]
    ELSE [rows |-> attempted, err |-> NULL]

RecipientTx(recipientId, tz, t) ==
    TxOutcome(generateForCareRecipient(recipientId, tz[recipientId],
                                       Windows(tz, t)[recipientId], t),
              ValidZone(tz[recipientId]),
              {f[2] : f \in {x \in proc.failing : x[1] = recipientId}})

RowCount(rows) ==
    Cardinality(rows.tasks) + Cardinality(rows.medication_administrations)
        + Cardinality(rows.shifts)

\* The rows of a set of results, table by table.  The rows of different
\* recipients are different rows, so a count is that of the union.
RowsOf(results) ==
    [tasks |-> UNION {x.rows.tasks : x \in results},
     medication_administrations |->
         UNION {x.rows.medication_administrations : x \in results},
     shifts |-> UNION {x.rows.shifts : x \in results}]

HouseholdOutcome(outcomes) ==
    [rows |-> RowsOf(outcomes),
     count |-> RowCount(RowsOf(outcomes)),
     errs |-> {[recipient |-> x.recipient, err |-> x.err] :
                  x \in {y \in outcomes : y.err # NULL}}]

\* generateForHousehold: every recipient of the household in turn; a failed
\* recipient is skipped and its error joined to the household's.
generateForHousehold(household, tz, t) ==
    HouseholdOutcome({[recipient |-> r] @@ RecipientTx(r, tz, t) :
                         r \in {x \in RecipientIds : HouseholdOf(x) = household}})

AllOutcome(results) ==
    [tasks |-> RowsOf(results).tasks,
     medication_administrations |-> RowsOf(results).medication_administrations,
     shifts |-> RowsOf(results).shifts,
     count |-> RowCount(RowsOf({x \in results : x.errs = {}})),
     errs |-> {[household |-> x.household, errs |-> x.errs] :
                  x \in {y \in results : y.errs # {}}}]

\* GenerateAllInstances: nothing while keys are rotated; otherwise every
\* household in turn.  A household that returns an error is logged, its error
\* is appended, and the loop goes on to the next household without adding the
\* household's count to the total.
GenerateAllInstances(tz, t) ==
    IF isKeyRotationInProgress
      THEN [tasks |-> {}, medication_administrations |-> {}, shifts |-> {},
            count |-> 0, errs |-> {}]
      ELSE AllOutcome({[household |-> h] @@ generateForHousehold(h, tz, t) :
                          h \in HouseholdIds})

Created(new) ==
    Cardinality(new.tasks) + Cardinality(new.medication_administrations)
        + Cardinality(new.shifts)

(***************************************************************************)
(* The soft-delete queries.                                                *)
(***************************************************************************)
\* UPDATE ... SET deleted_at = now WHERE ...: the rows hit are marked deleted.
SoftDelete(rows, hits) ==
    (rows \ hits) \cup {[r EXCEPT !.deleted = TRUE] : r \in hits}

\* Faulty variant: completed, skipped and annotated tasks are not spared.
SoftDeleteFuturePendingTasksByTemplate_ignoringNotes(rows, templateId, after) ==
    SoftDelete(rows, {r \in rows :
                        /\ r.template_id = templateId
                        /\ r.due_at > after
                        /\ ~r.deleted})

\* SoftDeleteFuturePendingTasksByTemplate
SoftDeleteFuturePendingTasksByTemplate(rows, templateId, after) ==
    SoftDelete(rows, {r \in rows :
                        /\ r.template_id = templateId
                        /\ r.due_at > after
                        /\ ~r.completed
                        /\ ~r.skipped
                        /\ ~r.notes
                        /\ ~r.deleted})

\* DeleteFutureUncompletedTasks
DeleteFutureUncompletedTasks(rows, templateId, after) ==
    SoftDelete(rows, {r \in rows :
                        /\ r.template_id = templateId
                        /\ r.due_at > after
                        /\ ~r.completed
                        /\ ~r.skipped
                        /\ ~r.deleted})

\* Faulty variant: the cleanup is keyed by the medication of the schedule.
SoftDeleteFuturePendingMedAdminsBySchedule_byMedication(rows, scheduleId, after) ==
    SoftDelete(rows, {r \in rows :
                        /\ r.medication_id = medication_schedules[scheduleId].medication_id
                        /\ r.scheduled_at > after
                        /\ r.status = "pending"
                        /\ ~r.deleted})

\* SoftDeleteFuturePendingMedAdminsBySchedule
SoftDeleteFuturePendingMedAdminsBySchedule(rows, scheduleId, after) ==
    SoftDelete(rows, {r \in rows :
                        /\ r.schedule_id = scheduleId
                        /\ r.scheduled_at > after
                        /\ r.status = "pending"
                        /\ ~r.deleted})

\* The cleanup of a discontinued medication: its future pending unannotated
\* administrations, whatever their schedule.
SoftDeleteFuturePendingMedAdminsByMedication(rows, medicationId, after) ==
    SoftDelete(rows, {r \in rows :
                        /\ r.medication_id = medicationId
                        /\ r.scheduled_at > after
                        /\ r.status = "pending"
                        /\ ~r.notes
                        /\ ~r.deleted})

\* The soft-delete of the future pending shifts of one template.
SoftDeleteFuturePendingShiftsByTemplate(rows, templateId, after) ==
    SoftDelete(rows, {r \in rows :
                        /\ r.template_id = templateId
                        /\ r.starts_at > after
                        /\ r.status = "scheduled"
                        /\ ~r.notes
                        /\ ~r.deleted})

\* Faulty variant: the tasks resolved in the old zone are left as they are.
SoftDeleteFuturePendingTasksByRecipient_nothing(rows, recipientId, after) == rows

\* SoftDeleteFuturePendingTasksByRecipient (preserve completed/annotated)
SoftDeleteFuturePendingTasksByRecipient(rows, recipientId, after) ==
    SoftDelete(rows, {r \in rows :
                        /\ r.care_recipient_id = recipientId
                        /\ r.template_id # NULL
                        /\ r.due_at > after
                        /\ ~r.completed
                        /\ ~r.skipped
                        /\ ~r.notes
                        /\ ~r.deleted})

\* SoftDeleteFuturePendingMedAdminsByRecipient
SoftDeleteFuturePendingMedAdminsByRecipient(rows, recipientId, after) ==
    SoftDelete(rows, {r \in rows :
                        /\ r.care_recipient_id = recipientId
                        /\ r.schedule_id # NULL
                        /\ r.scheduled_at > after
                        /\ r.status = "pending"
                        /\ ~r.notes
                        /\ ~r.deleted})

\* SoftDeleteFuturePendingShiftsByRecipient
SoftDeleteFuturePendingShiftsByRecipient(rows, recipientId, after) ==
    SoftDelete(rows, {r \in rows :
                        /\ r.care_recipient_id = recipientId
                        /\ r.template_id # NULL
                        /\ r.starts_at > after
                        /\ r.status = "scheduled"
                        /\ ~r.notes
                        /\ ~r.deleted})

(***************************************************************************)
(* The state machine: the scheduler, the template operations with their    *)
(* on-demand generation, cleanup and reconciliation, and the caregiver.    *)
(***************************************************************************)
StartNow == 12 * MinutesPerHour
ClockStep == 3 * MinutesPerHour
MaxNow == StartNow + MaxSteps * ClockStep
MaxGenNow == StartNow + MaxGenSteps * ClockStep
MaxFailNow == StartNow + MaxFailSteps * ClockStep

Op(name, id, created, win) == [op |-> name, id |-> id, created |-> created, win |-> win]

Empty == [x \in {} |-> NULL]

NoWindows == Empty

DailyMorning == Rule("daily", {<<8, 0>>}, {}, 0)

TaskTemplate(recipientId, rule) ==
    [care_recipient_id |-> recipientId, rule |-> rule, is_active |-> TRUE,
     title |-> "v1"]

Schedule(medicationId, timeOfDay) ==
    [medication_id |-> medicationId, time_of_day |-> timeOfDay,
     days_of_week |-> NULL, is_active |-> TRUE]

\* The households the model starts from: what exists before the first step.
NoTemplates ==
    [task_templates |-> Empty, medications |-> Empty,
     medication_schedules |-> Empty, shift_templates |-> Empty]

Households ==
    {[NoTemplates EXCEPT
        !.task_templates = [x \in {"T1"} |-> TaskTemplate("r1", DailyMorning)]],
     [NoTemplates EXCEPT
        !.medications = [x \in {"M1"} |->
                          [care_recipient_id |-> "r1", is_prn |-> FALSE,
                           discontinued |-> FALSE]],
        !.medication_schedules = [x \in {"S1", "S2"} |->
                          Schedule("M1", IF x = "S1" THEN <<8, 0>> ELSE <<20, 0>>)]],
     [NoTemplates EXCEPT
        !.shift_templates = [x \in {"H1"} |->
                          [care_recipient_id |-> "r1", rule |-> DailyMorning,
                           shift_start_time |-> <<22, 0>>,
                           shift_end_time |-> <<6, 0>>, is_active |-> TRUE]]]}

Idle == [w \in {} |-> NULL]

\* A resolver call: its inputs, its result, and the result on the wall clock.
Probe(state, date, timeOfDay, tzName) ==
    [state |-> state, date |-> date, timeOfDay |-> timeOfDay, tzName |-> tzName,
     utc |-> 0, wall |-> 0]

NoProbe == Probe("none", 0, <<0, 0>>, "UTC")

\* The status checker before its first pass, started at minute t.
CheckerAt(t) ==
    [lastCheck |-> t, passAt |-> t, passes |-> 0, inFlight |-> FALSE, todo |-> {},
     sent |-> {}, handoffs |-> {}]

\* The process in normal service: started through main, startup generation
\* done, HTTP server listening, no key rotation, no failing recipient.
Serving ==
    [rotation |-> FALSE, entry |-> "main", phase |-> "serving", generated |-> TRUE,
     requests |-> 0, failing |-> {}, errs |-> {}]

\* The process as the operating system starts it, through one of its two
\* entry points: main of the startup sequence, or run of the command.
Booting(entry) == [Serving EXCEPT !.entry = entry, !.phase = "boot", !.generated = FALSE]

\* No background goroutine is started and the context is not cancelled.
NoWorkers == [cancelled |-> FALSE, loops |-> Empty]

\* A nil *dbgen.Session: session ids are positive.
NoSession == 0

\* What an auth call or handler gave back: the error type ("OK" for nil)
\* and message, the session or user returned, and what the handler wrote to
\* the response; "none" before the first call.
\* The session cookie of a request: absent, with a signature that does not
\* verify, or signed and naming a session id.
Cookie(present, valid, id) == [present |-> present, valid |-> valid, sessionID |-> id]

\* The arguments of a call or the request of a handler; user says whether
\* LoadSession put a user in the context of the request.
NoInput ==
    [email |-> NULL, password |-> NULL, ip |-> NULL, sessionID |-> NoSession,
     cookie |-> Cookie(FALSE, FALSE, NoSession), htmx |-> FALSE, user |-> FALSE,
     guard |-> NULL, roles |-> {}]

Result(call, type, message, session) ==
    [call |-> call, type |-> type, message |-> message, session |-> session,
     user |-> NULL, status |-> 0, retryAfter |-> 0, cookie |-> "kept",
     redirect |-> NULL, passwordChecked |-> FALSE, input |-> NoInput,
     next |-> 0, handler |-> 0]

\* The config table after the migrations: no row.
NoConfig == [k \in {} |-> NULL]

\* The auth tables of a fresh database: no user, session, login attempt or
\* notification row, no household and no invite.  loggedOut remembers the
\* session ids Logout was called with, calls the Register calls in flight, and
\* registered the <<invite, user>> pairs of the committed invite registrations.
NoAuth ==
    [users |-> Empty, sessions |-> {}, login_attempts |-> {}, notifications |-> {},
     nextId |-> 1, loggedOut |-> {}, result |-> Result("none", "OK", NULL, NoSession),
     households |-> {}, invites |-> Empty, calls |-> Empty, registered |-> {}]

\* The generation tables are empty and nothing has run.
InitTables ==
    /\ now = StartNow
    /\ tasks = {}
    /\ medication_administrations = {}
    /\ shifts = {}
    /\ lastOp = Op("start", NULL, 0, NoWindows)
    /\ ops = 0
    /\ runs = Idle
    /\ probe = NoProbe
    /\ checker = CheckerAt(StartNow)

InitStore ==
    /\ InitTables
    /\ proc = Serving
    /\ workers = NoWorkers
    /\ auth = NoAuth
    /\ config = NoConfig

Init ==
    /\ InitStore
    /\ timezone = [r \in {"r1"} |-> "America/New_York"]
    /\ \E h \in Households :
          /\ task_templates = h.task_templates
          /\ medications = h.medications
          /\ medication_schedules = h.medication_schedules
          /\ shift_templates = h.shift_templates

\* The clock.
Advance(limit) ==
    /\ now + ClockStep <= limit
    /\ now' = now + ClockStep
    /\ UNCHANGED <<timezone, task_templates, medications, medication_schedules,
                   shift_templates, tasks, medication_administrations, shifts,
                   lastOp, ops, runs, probe,
                   checker, proc,
                   workers, auth, config>>

\* StartScheduler: one tick, GenerateAllInstances over every recipient.
SchedulerTick ==
    LET new == GenerateAllInstances(timezone, now)
    IN  /\ tasks' = tasks \cup new.tasks
        /\ medication_administrations' =
              medication_administrations \cup new.medication_administrations
        /\ shifts' = shifts \cup new.shifts
        /\ lastOp' = Op("generate", NULL, new.count,
                        [r \in RecipientIds |-> Windows(timezone, now)[r].Start])
        /\ proc' = [proc EXCEPT !.errs = new.errs]
        /\ UNCHANGED <<now, timezone, task_templates, medications,
                       medication_schedules, shift_templates, ops, runs, probe,
                       checker,
                       workers, auth, config>>

\* TaskService.CreateTemplate: store the template, then generate for it.
CreateTemplate(id, recipientId, rule) ==
    /\ ops < MaxOps
    /\ id \notin DOMAIN task_templates
    /\ LET tpl == TaskTemplate(recipientId, rule)
           new == GenerateForTaskTemplate(tasks, id, tpl, timezone[recipientId],
                      GetGenerationWindowForRecipient(timezone[recipientId], now), now)
       IN  /\ task_templates' = [x \in DOMAIN task_templates \cup {id} |->
                                    IF x = id THEN tpl ELSE task_templates[x]]
           /\ tasks' = tasks \cup new
           /\ lastOp' = Op("create", id, Cardinality(new), NoWindows)
    /\ ops' = ops + 1
    /\ UNCHANGED <<now, timezone, medications, medication_schedules,
                   shift_templates, medication_administrations, shifts, runs, probe,
                   checker, proc,
                   workers, auth, config>>

\* ReconcileTaskTemplate: soft-delete the future pending tasks of the old
\* template, then generate from the new one.
ReconcileTaskTemplate(rows, id, newTemplate, tzName, t) ==
    LET kept == SoftDeleteFuturePendingTasksByTemplate(rows, id, t)
    IN  kept \cup GenerateForTaskTemplate(kept, id, newTemplate, tzName,
                      GetGenerationWindowForRecipient(tzName, t), t)

\* TaskService.UpdateTemplate with a changed recurrence rule.
UpdateTemplate(id, rule) ==
    /\ ops < MaxOps
    /\ id \in DOMAIN task_templates
    /\ rule # task_templates[id].rule
    /\ LET tpl == [task_templates[id] EXCEPT !.rule = rule]
       IN  /\ task_templates' = [task_templates EXCEPT ![id] = tpl]
           /\ tasks' = ReconcileTaskTemplate(tasks, id, tpl,
                           timezone[tpl.care_recipient_id], now)
           /\ lastOp' = Op("reconcile", id, Cardinality(tasks' \ tasks), NoWindows)
    /\ ops' = ops + 1
    /\ UNCHANGED <<now, timezone, medications, medication_schedules,
                   shift_templates, medication_administrations, shifts, runs, probe,
                   checker, proc,
                   workers, auth, config>>

\* TaskService.DeactivateTemplate, with CleanupDeactivatedTaskTemplate.
DeactivateTemplate(id) ==
    /\ ops < MaxOps
    /\ id \in DOMAIN task_templates
    /\ task_templates[id].is_active
    /\ task_templates' = [task_templates EXCEPT ![id].is_active = FALSE]
    /\ tasks' = DeleteFutureUncompletedTasks(tasks, id, now)
    /\ lastOp' = Op("deactivate", id, 0, NoWindows)
    /\ ops' = ops + 1
    /\ UNCHANGED <<now, timezone, medications, medication_schedules,
                   shift_templates, medication_administrations, shifts, runs, probe,
                   checker, proc,
                   workers, auth, config>>

\* TaskService.ReactivateTemplate: reactivate, then generate for the template.
ReactivateTemplate(id) ==
    /\ ops < MaxOps
    /\ id \in DOMAIN task_templates
    /\ ~task_templates[id].is_active
    /\ LET tpl == [task_templates[id] EXCEPT !.is_active = TRUE]
           new == GenerateForTaskTemplate(tasks, id, tpl,
                      timezone[tpl.care_recipient_id],
                      GetGenerationWindowForRecipient(timezone[tpl.care_recipient_id], now),
                      now)
       IN  /\ task_templates' = [task_templates EXCEPT ![id] = tpl]
           /\ tasks' = tasks \cup new
           /\ lastOp' = Op("reactivate", id, Cardinality(new), NoWindows)
    /\ ops' = ops + 1
    /\ UNCHANGED <<now, timezone, medications, medication_schedules,
                   shift_templates, medication_administrations, shifts, runs, probe,
                   checker, proc,
                   workers, auth, config>>

\* MedicationService.DeactivateSchedule, with CleanupDeactivatedSchedule.
DeactivateSchedule(id) ==
    /\ ops < MaxOps
    /\ id \in DOMAIN medication_schedules
    /\ medication_schedules[id].is_active
    /\ medication_schedules' = [medication_schedules EXCEPT ![id].is_active = FALSE]
    /\ medication_administrations' =
          SoftDeleteFuturePendingMedAdminsBySchedule(medication_administrations, id, now)
    /\ lastOp' = Op("deactivateSchedule", id, 0, NoWindows)
    /\ ops' = ops + 1
    /\ UNCHANGED <<now, timezone, task_templates, medications, shift_templates,
                   tasks, shifts, runs, probe,
                   checker, proc,
                   workers, auth, config>>

\* MedicationService.Discontinue: the medication is marked discontinued, all
\* its schedules are deactivated, its future pending administrations cleaned up.
Discontinue(id) ==
    /\ ops < MaxOps
    /\ id \in DOMAIN medications
    /\ ~medications[id].discontinued
    /\ medications' = [medications EXCEPT ![id].discontinued = TRUE]
    /\ medication_schedules' =
          [x \in DOMAIN medication_schedules |->
              IF medication_schedules[x].medication_id = id
              THEN [medication_schedules[x] EXCEPT !.is_active = FALSE]
              ELSE medication_schedules[x]]
    /\ medication_administrations' =
          SoftDeleteFuturePendingMedAdminsByMedication(medication_administrations, id, now)
    /\ lastOp' = Op("discontinue", id, 0, NoWindows)
    /\ ops' = ops + 1
    /\ UNCHANGED <<now, timezone, task_templates, shift_templates,
                   tasks, shifts, runs, probe,
                   checker, proc,
                   workers, auth, config>>

\* Reactivation of a medication schedule: reactivate, then
\* GenerateForMedicationSchedule over the window, which generates for a
\* medication the generator does not skip.
ReactivateSchedule(id) ==
    /\ ops < MaxOps
    /\ id \in DOMAIN medication_schedules
    /\ ~medication_schedules[id].is_active
    /\ LET sched == [medication_schedules[id] EXCEPT !.is_active = TRUE]
           recipientId == medications[sched.medication_id].care_recipient_id
           new == IF MedicationGenerated(medications[sched.medication_id])
                    THEN GenerateForMedicationSchedule(medication_administrations,
                             id, sched, recipientId, timezone[recipientId],
                             GetGenerationWindowForRecipient(timezone[recipientId], now),
                             now)
                    ELSE {}
       IN  /\ medication_schedules' = [medication_schedules EXCEPT ![id] = sched]
           /\ medication_administrations' = medication_administrations \cup new
           /\ lastOp' = Op("reactivateSchedule", id, Cardinality(new), NoWindows)
    /\ ops' = ops + 1
    /\ UNCHANGED <<now, timezone, task_templates, medications, shift_templates,
                   tasks, shifts, runs, probe,
                   checker, proc,
                   workers, auth, config>>

\* Deactivation of a shift template, with the cleanup of its future shifts.
DeactivateShiftTemplate(id) ==
    /\ ops < MaxOps
    /\ id \in DOMAIN shift_templates
    /\ shift_templates[id].is_active
    /\ shift_templates' = [shift_templates EXCEPT ![id].is_active = FALSE]
    /\ shifts' = SoftDeleteFuturePendingShiftsByTemplate(shifts, id, now)
    /\ lastOp' = Op("deactivateShiftTemplate", id, 0, NoWindows)
    /\ ops' = ops + 1
    /\ UNCHANGED <<now, timezone, task_templates, medications, medication_schedules,
                   tasks, medication_administrations, runs, probe,
                   checker, proc,
                   workers, auth, config>>

\* Reactivation of a shift template: reactivate, then generate for it.
ReactivateShiftTemplate(id) ==
    /\ ops < MaxOps
    /\ id \in DOMAIN shift_templates
    /\ ~shift_templates[id].is_active
    /\ LET tpl == [shift_templates[id] EXCEPT !.is_active = TRUE]
           tzName == timezone[tpl.care_recipient_id]
           new == GenerateForShiftTemplate(shifts, id, tpl, tzName,
                      GetGenerationWindowForRecipient(tzName, now), now)
       IN  /\ shift_templates' = [shift_templates EXCEPT ![id] = tpl]
           /\ shifts' = shifts \cup new
           /\ lastOp' = Op("reactivateShiftTemplate", id, Cardinality(new), NoWindows)
    /\ ops' = ops + 1
    /\ UNCHANGED <<now, timezone, task_templates, medications, medication_schedules,
                   tasks, medication_administrations, runs, probe,
                   checker, proc,
                   workers, auth, config>>

\* CareRecipientService.UpdateTimezone, with ReconcileTimezoneChange: the
\* three soft-deletes by recipient, then generateForCareRecipientByID over the
\* window of the recipient in the new zone.
UpdateTimezone(recipientId, newTZ) ==
    /\ ops < MaxOps
    /\ newTZ # timezone[recipientId]
    /\ timezone' = [timezone EXCEPT ![recipientId] = newTZ]
    /\ LET keptTasks == SoftDeleteFuturePendingTasksByRecipient(tasks, recipientId, now)
           keptAdmins == SoftDeleteFuturePendingMedAdminsByRecipient(
                            medication_administrations, recipientId, now)
           keptShifts == SoftDeleteFuturePendingShiftsByRecipient(shifts, recipientId, now)
           window == GetGenerationWindowForRecipient(newTZ, now)
           newTasks ==
              UNION {GenerateForTaskTemplate(keptTasks, id, task_templates[id], newTZ, window, now) :
                       id \in {x \in DOMAIN task_templates :
                                  /\ task_templates[x].care_recipient_id = recipientId
                                  /\ task_templates[x].is_active}}
           newAdmins ==
              UNION {GenerateForMedicationSchedule(keptAdmins, id, medication_schedules[id],
                          recipientId, newTZ, window, now) :
                       id \in {x \in DOMAIN medication_schedules :
                                  LET m == medications[medication_schedules[x].medication_id]
                                  IN  /\ m.care_recipient_id = recipientId
                                      /\ ~m.discontinued
                                      /\ ~m.is_prn
                                      /\ medication_schedules[x].is_active}}
           newShifts ==
              UNION {GenerateForShiftTemplate(keptShifts, id, shift_templates[id], newTZ, window, now) :
                       id \in {x \in DOMAIN shift_templates :
                                  /\ shift_templates[x].care_recipient_id = recipientId
                                  /\ shift_templates[x].is_active}}
       IN  /\ tasks' = keptTasks \cup newTasks
           /\ medication_administrations' = keptAdmins \cup newAdmins
           /\ shifts' = keptShifts \cup newShifts
           /\ lastOp' = Op("timezone", recipientId,
                           Cardinality(newTasks) + Cardinality(newAdmins)
                               + Cardinality(newShifts), NoWindows)
    /\ ops' = ops + 1
    /\ UNCHANGED <<now, task_templates, medications, medication_schedules,
                   shift_templates, runs, probe,
                   checker, proc,
                   workers, auth, config>>

\* The caregiver completes, skips or annotates a pending task.
CompleteTask(row) ==
    /\ ops < MaxOps
    /\ ~row.deleted /\ ~row.completed /\ ~row.skipped
    /\ tasks' = (tasks \ {row}) \cup {[row EXCEPT !.completed = TRUE]}
    /\ lastOp' = Op("complete", row.template_id, 0, NoWindows)
    /\ ops' = ops + 1
    /\ UNCHANGED <<now, timezone, task_templates, medications, medication_schedules,
                   shift_templates, medication_administrations, shifts, runs, probe,
                   checker, proc,
                   workers, auth, config>>

SkipTask(row) ==
    /\ ops < MaxOps
    /\ ~row.deleted /\ ~row.completed /\ ~row.skipped
    /\ tasks' = (tasks \ {row}) \cup {[row EXCEPT !.skipped = TRUE]}
    /\ lastOp' = Op("skip", row.template_id, 0, NoWindows)
    /\ ops' = ops + 1
    /\ UNCHANGED <<now, timezone, task_templates, medications, medication_schedules,
                   shift_templates, medication_administrations, shifts, runs, probe,
                   checker, proc,
                   workers, auth, config>>

AnnotateTask(row) ==
    /\ ops < MaxOps
    /\ ~row.deleted /\ ~row.notes
    /\ tasks' = (tasks \ {row}) \cup {[row EXCEPT !.notes = TRUE]}
    /\ lastOp' = Op("annotate", row.template_id, 0, NoWindows)
    /\ ops' = ops + 1
    /\ UNCHANGED <<now, timezone, task_templates, medications, medication_schedules,
                   shift_templates, medication_administrations, shifts, runs, probe,
                   checker, proc,
                   workers, auth, config>>

\* MedicationService.RecordAdministration: the administration is marked given.
RecordAdministration(row) ==
    /\ ops < MaxOps
    /\ ~row.deleted /\ row.status = "pending"
    /\ medication_administrations' =
          (medication_administrations \ {row}) \cup {[row EXCEPT !.status = "given"]}
    /\ lastOp' = Op("given", row.schedule_id, 0, NoWindows)
    /\ ops' = ops + 1
    /\ UNCHANGED <<now, timezone, task_templates, medications, medication_schedules,
                   shift_templates, tasks, shifts, runs, probe,
                   checker, proc,
                   workers, auth, config>>

\* The caregiver clocks in to a scheduled shift.
ClockIn(row) ==
    /\ ops < MaxOps
    /\ ~row.deleted /\ row.status = "scheduled"
    /\ shifts' = (shifts \ {row}) \cup {[row EXCEPT !.status = "active"]}
    /\ lastOp' = Op("clockIn", row.template_id, 0, NoWindows)
    /\ ops' = ops + 1
    /\ UNCHANGED <<now, timezone, task_templates, medications, medication_schedules,
                   shift_templates, tasks, medication_administrations, runs, probe,
                   checker, proc,
                   workers, auth, config>>

Next ==
    \/ Advance(MaxNow)
    \/ SchedulerTick
    \/ \E id \in DOMAIN task_templates, rule \in Rules : UpdateTemplate(id, rule)
    \/ \E id \in DOMAIN task_templates : DeactivateTemplate(id)
    \/ \E id \in DOMAIN task_templates : ReactivateTemplate(id)
    \/ \E id \in DOMAIN medication_schedules : DeactivateSchedule(id)
    \/ \E id \in DOMAIN medication_schedules : ReactivateSchedule(id)
    \/ \E id \in DOMAIN medications : Discontinue(id)
    \/ \E id \in DOMAIN shift_templates : DeactivateShiftTemplate(id)
    \/ \E id \in DOMAIN shift_templates : ReactivateShiftTemplate(id)
    \/ \E r \in RecipientIds, z \in Zones : UpdateTimezone(r, z)
    \/ \E row \in tasks : CompleteTask(row)
    \/ \E row \in tasks : SkipTask(row)
    \/ \E row \in tasks : AnnotateTask(row)
    \/ \E row \in medication_administrations : RecordAdministration(row)
    \/ \E row \in shifts : ClockIn(row)

Spec == Init /\ [][Next]_vars

(***************************************************************************)
(* The scheduler alone, over two recipients in zones of their own: one     *)
(* template exists from the start, the other is created along the way.     *)
(***************************************************************************)
InitGen ==
    /\ InitStore
    /\ timezone \in [{"r1", "r2"} -> Zones]
    /\ task_templates = [x \in {"T2"} |-> TaskTemplate("r2", DailyMorning)]
    /\ medications = Empty
    /\ medication_schedules = Empty
    /\ shift_templates = Empty

NextGen ==
    \/ Advance(MaxGenNow)
    \/ SchedulerTick
    \/ \E rule \in LateRules : CreateTemplate("T1", "r1", rule)

SpecGen == InitGen /\ [][NextGen]_vars

(***************************************************************************)
(* Two generation runs in flight at once: the scheduler tick and an         *)
(* on-demand generation for one template.  Each run fixes what it will      *)
(* attempt when it starts and then issues its INSERT OR IGNORE statements   *)
(* one at a time, in date order; the statements of the two runs interleave  *)
(* in every order, which includes the orders SQLite's single connection     *)
(* allows.                                                                  *)
(***************************************************************************)
Runners == {"scheduler", "ondemand"}

\* What one statement inserts: the table, the template or schedule, the
\* scheduled instant and, for a shift, its end.
Key(kind, id, at, ends) == [kind |-> kind, id |-> id, at |-> at, ends |-> ends]

RecipientOfSchedule(id) ==
    medications[medication_schedules[id].medication_id].care_recipient_id

\* What a run started at minute t attempts for the templates and schedules ids.
Attempts(ids, t) ==
    UNION {{Key("task", id, at, at) :
              at \in DueOccurrences(task_templates[id].rule,
                        timezone[task_templates[id].care_recipient_id],
                        GetGenerationWindowForRecipient(
                            timezone[task_templates[id].care_recipient_id], t), t)} :
           id \in {x \in DOMAIN task_templates \cap ids : task_templates[x].is_active}}
    \cup
    UNION {{Key("admin", id, at, at) :
              at \in {a \in ScheduleOccurrences(medication_schedules[id],
                                timezone[RecipientOfSchedule(id)],
                                GetGenerationWindowForRecipient(
                                    timezone[RecipientOfSchedule(id)], t)) :
                        shouldGenerateInstance(a, t)}} :
           id \in {x \in DOMAIN medication_schedules \cap ids :
                      /\ medication_schedules[x].is_active
                      /\ ~medications[medication_schedules[x].medication_id].discontinued
                      /\ ~medications[medication_schedules[x].medication_id].is_prn}}
    \cup
    UNION {{Key("shift", id, tm.starts_at, tm.ends_at) :
              tm \in {x \in {ShiftTimes(shift_templates[id],
                                 timezone[shift_templates[id].care_recipient_id], d) :
                             d \in {y \in DatesIn(GetGenerationWindowForRecipient(
                                             timezone[shift_templates[id].care_recipient_id], t)) :
                                      MatchesDate(shift_templates[id].rule, y)}} :
                        shouldGenerateInstance(x.starts_at, t)}} :
           id \in {x \in DOMAIN shift_templates \cap ids : shift_templates[x].is_active}}

\* Faulty variant: a plain INSERT, which fails on a conflict.
PlainInsert(conflict) == [inserted |-> ~conflict, err |-> conflict]

\* INSERT OR IGNORE against a table where the key conflicts or not: a conflict
\* is a no-op, not an error.
InsertOrIgnore(conflict) == [inserted |-> ~conflict, err |-> FALSE]

Conflicts(k) ==
    CASE k.kind = "task" -> idx_tasks_dedup(tasks, k.id, k.at)
      [] k.kind = "admin" ->
            idx_med_admin_dedup(medication_administrations,
                medication_schedules[k.id].medication_id, k.id, k.at)
      [] k.kind = "shift" -> idx_shifts_dedup(shifts, k.id, k.at)

NotStarted == [pc |-> "idle", keys |-> {}, todo |-> {}, made |-> {},
               err |-> FALSE, created |-> 0]

AllIds == DOMAIN task_templates \cup DOMAIN medication_schedules
              \cup DOMAIN shift_templates

\* The run starts: the scheduler covers every template, the on-demand run one.
StartRun(w, ids) ==
    /\ runs[w].pc = "idle"
    /\ runs' = [runs EXCEPT ![w] = [NotStarted EXCEPT
                    !.pc = "running",
                    !.keys = Attempts(ids, now),
                    !.todo = Attempts(ids, now)]]
    /\ UNCHANGED <<now, timezone, task_templates, medications, medication_schedules,
                   shift_templates, tasks, medication_administrations, shifts,
                   lastOp, ops, probe,
                   checker, proc,
                   workers, auth, config>>

\* The run issues its next INSERT OR IGNORE.
InsertStep(w) ==
    /\ runs[w].pc = "running"
    /\ runs[w].todo # {}
    /\ LET k == CHOOSE x \in runs[w].todo :
                    \A y \in runs[w].todo : x.at < y.at \/ (x.at = y.at /\ x.id = y.id)
           res == InsertOrIgnore(Conflicts(k))
       IN  /\ runs' = [runs EXCEPT
                          ![w].todo = @ \ {k},
                          ![w].made = IF res.inserted THEN @ \cup {k} ELSE @,
                          ![w].err = @ \/ res.err]
           /\ tasks' =
                 IF res.inserted /\ k.kind = "task"
                 THEN tasks \cup {TaskRow(tasks, k.id, task_templates[k.id], k.at)}
                 ELSE tasks
           /\ medication_administrations' =
                 IF res.inserted /\ k.kind = "admin"
                 THEN medication_administrations \cup
                        {MedAdminRow(medication_administrations,
                            medication_schedules[k.id].medication_id, k.id,
                            RecipientOfSchedule(k.id), k.at)}
                 ELSE medication_administrations
           /\ shifts' =
                 IF res.inserted /\ k.kind = "shift"
                 THEN shifts \cup
                        {ShiftRow(shifts, k.id, shift_templates[k.id],
                            [starts_at |-> k.at, ends_at |-> k.ends])}
                 ELSE shifts
    /\ UNCHANGED <<now, timezone, task_templates, medications, medication_schedules,
                   shift_templates, lastOp, ops, probe,
                   checker, proc,
                   workers, auth, config>>

\* The run returns the number of instances it created.
FinishRun(w) ==
    /\ runs[w].pc = "running"
    /\ runs[w].todo = {}
    /\ runs' = [runs EXCEPT ![w].pc = "done",
                            ![w].created = Cardinality(runs[w].made)]
    /\ UNCHANGED <<now, timezone, task_templates, medications, medication_schedules,
                   shift_templates, tasks, medication_administrations, shifts,
                   lastOp, ops, probe,
                   checker, proc,
                   workers, auth, config>>

InitRace ==
    /\ now = StartNow
    /\ tasks = {}
    /\ medication_administrations = {}
    /\ shifts = {}
    /\ lastOp = Op("start", NULL, 0, NoWindows)
    /\ ops = 0
    /\ runs = [w \in Runners |-> NotStarted]
    /\ probe = NoProbe
    /\ checker = CheckerAt(StartNow)
    /\ proc = Serving
    /\ workers = NoWorkers
    /\ auth = NoAuth
    /\ config = NoConfig
    /\ timezone = [r \in {"r1"} |-> "America/New_York"]
    /\ \E h \in Households :
          /\ task_templates = h.task_templates
          /\ medications = h.medications
          /\ medication_schedules = h.medication_schedules
          /\ shift_templates = h.shift_templates

NextRace ==
    \/ Advance(MaxNow)
    \/ StartRun("scheduler", AllIds)
    \/ \E id \in AllIds : StartRun("ondemand", {id})
    \/ \E w \in Runners : InsertStep(w)
    \/ \E w \in Runners : FinishRun(w)

SpecRace == InitRace /\ [][NextRace]_vars

(***************************************************************************)
(* The resolver on its own: one call on a date, a time of day and a zone,   *)
(* and the reading of its result back on the wall clock of the zone.        *)
(***************************************************************************)
ProbeTimes == {<<h, m>> : h \in 0 .. 23, m \in {0, 30}}

InitResolve ==
    /\ now = StartNow
    /\ tasks = {}
    /\ medication_administrations = {}
    /\ shifts = {}
    /\ lastOp = Op("start", NULL, 0, NoWindows)
    /\ ops = 0
    /\ runs = Idle
    /\ checker = CheckerAt(StartNow)
    /\ proc = Serving
    /\ workers = NoWorkers
    /\ auth = NoAuth
    /\ config = NoConfig
    /\ timezone = [r \in {"r1"} |-> "UTC"]
    /\ task_templates = Empty
    /\ medications = Empty
    /\ medication_schedules = Empty
    /\ shift_templates = Empty
    /\ \E date \in 0 .. MaxProbeDay, timeOfDay \in ProbeTimes, tzName \in Zones :
          probe = Probe("asked", date, timeOfDay, tzName)

\* resolveLocalTimeToUTC(date, timeOfDay, tzName) is called.
Resolve ==
    /\ probe.state = "asked"
    /\ probe' = [probe EXCEPT
                    !.state = "resolved",
                    !.utc = resolveLocalTimeToUTC(probe.date, probe.timeOfDay,
                                                  probe.tzName)]
    /\ UNCHANGED <<now, timezone, task_templates, medications, medication_schedules,
                   shift_templates, tasks, medication_administrations, shifts,
                   lastOp, ops, runs,
                   checker, proc,
                   workers, auth, config>>

\* The instant is shown on the wall clock of the zone (utc.In(loc)).
ShowLocal ==
    /\ probe.state = "resolved"
    /\ probe' = [probe EXCEPT !.state = "shown",
                              !.wall = LocalWallClock(probe.tzName, probe.utc)]
    /\ UNCHANGED <<now, timezone, task_templates, medications, medication_schedules,
                   shift_templates, tasks, medication_administrations, shifts,
                   lastOp, ops, runs,
                   checker, proc,
                   workers, auth, config>>

NextResolve ==
    \/ Resolve
    \/ ShowLocal

SpecResolve == InitResolve /\ [][NextResolve]_vars

(***************************************************************************)
(* The status checker: newly overdue items, handoff prompts, missed        *)
(* shifts.  A pass reads the clock once; the missed-shift loop of a pass   *)
(* is one step per shift, so that a clock-in can fall between the query    *)
(* and the update.                                                         *)
(***************************************************************************)
missedShiftGrace == 30
handoffPromptLead == 30

ShiftId(r) == <<r.template_id, r.starts_at, r.nth>>

\* A notification handed to Send by the pass that read the clock at minute at;
\* after is the high-water mark that pass started from.
Notification(kind, item, after, at) ==
    [kind |-> kind, item |-> item, after |-> after, at |-> at]

\* Faulty variant: the high-water mark is never moved.
setLastCheckTime_stale(lastCheck, t) == lastCheck

\* setLastCheckTime(ctx, now): the mark becomes the instant the pass read.
setLastCheckTime(lastCheck, t) == t

\* GetNewlyOverdueMedications: pending, scheduled in (DueAfter, DueBefore].
GetNewlyOverdueMedications(rows, dueAfter, dueBefore) ==
    {r \in rows : /\ r.status = "pending"
                  /\ r.scheduled_at > dueAfter
                  /\ r.scheduled_at <= dueBefore}

\* GetNewlyOverdueTasks: the same for tasks that are neither completed nor
\* skipped.
GetNewlyOverdueTasks(rows, dueAfter, dueBefore) ==
    {r \in rows : /\ ~r.completed /\ ~r.skipped
                  /\ r.due_at > dueAfter
                  /\ r.due_at <= dueBefore}

\* GetShiftsEndingSoonWithoutHandoff: active, ending in (EndsAfter, EndsBefore],
\* with no row in shift_handoffs.
GetShiftsEndingSoonWithoutHandoff(rows, handoffs, endsAfter, endsBefore) ==
    {s \in rows : /\ s.status = "active"
                  /\ s.ends_at > endsAfter
                  /\ s.ends_at <= endsBefore
                  /\ ShiftId(s) \notin handoffs}

\* Faulty variant: the existence check never finds the earlier prompt.
HasHandoffPromptNotification_never(sent, id) == FALSE

\* HasHandoffPromptNotification: a handoff prompt for this shift was sent.
HasHandoffPromptNotification(sent, id) ==
    \E n \in sent : n.kind = "handoff_prompt" /\ n.item = id

\* Faulty variant: no grace for a late clock-in.
missedThreshold_noGrace(t) == t

\* missedThreshold := now.Add(-30 * time.Minute)
missedThreshold(t) == t - missedShiftGrace

\* GetMissedShifts: scheduled, started before the threshold, not soft-deleted.
GetMissedShifts(rows, startedBefore) ==
    {s \in rows : /\ s.status = "scheduled"
                  /\ s.starts_at < startedBefore
                  /\ ~s.deleted}

\* Faulty variant: the update does not look at the status it overwrites.
MarkShiftMissed_unguarded(rows, id) ==
    {IF ShiftId(s) = id THEN [s EXCEPT !.status = "missed"] ELSE s : s \in rows}

\* MarkShiftMissed: UPDATE ... SET status = 'missed' WHERE id = ? AND
\* status = 'scheduled'.
MarkShiftMissed(rows, id) ==
    {IF ShiftId(s) = id /\ s.status = "scheduled"
        THEN [s EXCEPT !.status = "missed"] ELSE s : s \in rows}

\* The household whose shifts the checker watches: three Saturday night shifts,
\* the last starting two minutes after the others.
SaturdayMorning == Rule("weekly", {<<8, 0>>}, {"sat"}, 0)

NightShift(startTime) ==
    [care_recipient_id |-> "r1", rule |-> SaturdayMorning,
     shift_start_time |-> startTime, shift_end_time |-> <<6, 0>>,
     is_active |-> TRUE]

StatusHousehold ==
    [NoTemplates EXCEPT
        !.shift_templates = [x \in {"H1", "H2", "H3"} |->
                        NightShift(IF x = "H3" THEN <<22, 2>> ELSE <<22, 0>>)]]

\* The household whose items fall due: a Saturday morning task and a
\* medication taken every evening.
OverdueHousehold ==
    [NoTemplates EXCEPT
        !.task_templates = [x \in {"T1"} |-> TaskTemplate("r1", SaturdayMorning)],
        !.medications = [x \in {"M1"} |->
                          [care_recipient_id |-> "r1", is_prn |-> FALSE,
                           discontinued |-> FALSE]],
        !.medication_schedules = [x \in {"S1"} |-> Schedule("M1", <<20, 0>>)]]

\* The instants the checker's clock reaches: around the grace period of the
\* night shifts and inside the handoff look-ahead; around the items due.
FirstNight == ShiftTimes(NightShift(<<22, 0>>), "America/New_York", 0)

StatusInstants ==
    {FirstNight.starts_at - 1}
    \cup {FirstNight.starts_at + d : d \in {missedShiftGrace, missedShiftGrace + 1}}
    \cup {FirstNight.ends_at - d : d \in {handoffPromptLead + 1, handoffPromptLead, 1}}

OverdueInstants ==
    {resolveLocalTimeToUTC(0, <<8, 0>>, "America/New_York") + d : d \in {0, 1}}
    \cup {resolveLocalTimeToUTC(0, <<20, 0>>, "America/New_York") + d : d \in {0 - 1, 0, 1}}

InitHousehold(h) ==
    /\ InitStore
    /\ timezone = [r \in {"r1"} |-> "America/New_York"]
    /\ task_templates = h.task_templates
    /\ medications = h.medications
    /\ medication_schedules = h.medication_schedules
    /\ shift_templates = h.shift_templates

InitStatus == InitHousehold(StatusHousehold)

InitOverdue == InitHousehold(OverdueHousehold)

\* The generation run of the startup sequence, before the checker starts.
Startup == lastOp.op = "start" /\ SchedulerTick

\* Time passes between two passes of the checker.
Elapse(instants) ==
    /\ lastOp.op # "start"
    /\ ~checker.inFlight
    /\ \E t \in instants : t > now /\ now' = t
    /\ UNCHANGED <<timezone, task_templates, medications, medication_schedules,
                   shift_templates, tasks, medication_administrations, shifts,
                   lastOp, ops, runs, probe, checker, proc,
                   workers, auth, config>>

\* One tick of the checker up to the missed-shift query: CheckAndNotify sends
\* the newly overdue items and moves the high-water mark, CheckShiftHandoffs
\* sends the prompts not sent before, CheckMissedShifts selects its shifts.
BeginPass ==
    LET lastCheck == checker.lastCheck
        overdueMeds == GetNewlyOverdueMedications(medication_administrations,
                                                  lastCheck, now)
        overdueTasks == GetNewlyOverdueTasks(tasks, lastCheck, now)
        endingShifts == GetShiftsEndingSoonWithoutHandoff(shifts, checker.handoffs,
                                                now, now + handoffPromptLead)
        missedShifts == GetMissedShifts(shifts, missedThreshold(now))
    IN  /\ lastOp.op # "start"
        /\ ~checker.inFlight
        /\ checker.passAt < now
        /\ checker.passes < MaxPasses
        /\ checker' =
             [checker EXCEPT
                !.lastCheck = setLastCheckTime(lastCheck, now),
                !.passAt = now,
                !.passes = checker.passes + 1,
                !.inFlight = TRUE,
                !.todo = {ShiftId(s) : s \in missedShifts},
                !.sent = checker.sent
                    \cup {Notification("overdue_medication",
                              <<r.schedule_id, r.scheduled_at, r.nth>>, lastCheck, now) :
                            r \in overdueMeds}
                    \cup {Notification("overdue_task",
                              <<r.template_id, r.due_at, r.nth>>, lastCheck, now) :
                            r \in overdueTasks}
                    \cup {Notification("handoff_prompt", ShiftId(s), now, now) :
                            s \in {x \in endingShifts :
                                     ~HasHandoffPromptNotification(checker.sent,
                                                                   ShiftId(x))}}]
        /\ lastOp' = Op("checkBegin", NULL, 0, NoWindows)
        /\ UNCHANGED <<now, timezone, task_templates, medications,
                       medication_schedules, shift_templates, tasks,
                       medication_administrations, shifts, ops, runs, probe, proc,
                       workers, auth, config>>

\* One turn of the loop of CheckMissedShifts: mark the shift, then notify.
MarkMissed(id) ==
    /\ checker.inFlight
    /\ id \in checker.todo
    /\ shifts' = MarkShiftMissed(shifts, id)
    /\ checker' = [checker EXCEPT
                     !.todo = checker.todo \ {id},
                     !.sent = checker.sent \cup
                         {Notification("missed_shift", id, checker.passAt,
                                       checker.passAt)}]
    /\ lastOp' = Op("markMissed", id[1], 0, NoWindows)
    /\ UNCHANGED <<now, timezone, task_templates, medications, medication_schedules,
                   shift_templates, tasks, medication_administrations, ops, runs,
                   probe, proc,
                   workers, auth, config>>

\* The loop is over: the pass ends.
FinishPass ==
    /\ checker.inFlight
    /\ checker.todo = {}
    /\ checker' = [checker EXCEPT !.inFlight = FALSE]
    /\ lastOp' = Op("checkEnd", NULL, 0, NoWindows)
    /\ UNCHANGED <<now, timezone, task_templates, medications, medication_schedules,
                   shift_templates, tasks, medication_administrations, shifts, ops,
                   runs, probe, proc,
                   workers, auth, config>>

\* The caregiver clocks out of an active shift.
ClockOut(row) ==
    /\ ops < MaxOps
    /\ ~row.deleted /\ row.status = "active"
    /\ shifts' = (shifts \ {row}) \cup {[row EXCEPT !.status = "completed"]}
    /\ lastOp' = Op("clockOut", row.template_id, 0, NoWindows)
    /\ ops' = ops + 1
    /\ UNCHANGED <<now, timezone, task_templates, medications, medication_schedules,
                   shift_templates, tasks, medication_administrations, runs, probe,
                   checker, proc,
                   workers, auth, config>>

\* A swap of a scheduled shift is accepted.
AcceptSwap(row) ==
    /\ ops < MaxOps
    /\ ~row.deleted /\ row.status = "scheduled"
    /\ shifts' = (shifts \ {row}) \cup {[row EXCEPT !.status = "swapped"]}
    /\ lastOp' = Op("acceptSwap", row.template_id, 0, NoWindows)
    /\ ops' = ops + 1
    /\ UNCHANGED <<now, timezone, task_templates, medications, medication_schedules,
                   shift_templates, tasks, medication_administrations, runs, probe,
                   checker, proc,
                   workers, auth, config>>

\* The outgoing caregiver files the handoff of an active shift.
SubmitHandoff(row) ==
    /\ ops < MaxOps
    /\ ~row.deleted /\ row.status = "active"
    /\ ShiftId(row) \notin checker.handoffs
    /\ checker' = [checker EXCEPT !.handoffs = checker.handoffs \cup {ShiftId(row)}]
    /\ lastOp' = Op("handoff", row.template_id, 0, NoWindows)
    /\ ops' = ops + 1
    /\ UNCHANGED <<now, timezone, task_templates, medications, medication_schedules,
                   shift_templates, tasks, medication_administrations, shifts, runs,
                   probe, proc,
                   workers, auth, config>>

NextStatus ==
    \/ Startup
    \/ Elapse(StatusInstants)
    \/ BeginPass
    \/ \E id \in checker.todo : MarkMissed(id)
    \/ FinishPass
    \/ \E row \in shifts : ClockIn(row)
    \/ \E row \in shifts : ClockOut(row)
    \/ \E row \in shifts : AcceptSwap(row)
    \/ \E row \in shifts : SubmitHandoff(row)
    \/ \E id \in DOMAIN shift_templates : DeactivateShiftTemplate(id)

SpecStatus == InitStatus /\ [][NextStatus]_vars

NextOverdue ==
    \/ Startup
    \/ Elapse(OverdueInstants)
    \/ BeginPass
    \/ FinishPass
    \/ \E row \in tasks : CompleteTask(row)
    \/ \E row \in medication_administrations : RecordAdministration(row)

SpecOverdue == InitOverdue /\ [][NextOverdue]_vars

(***************************************************************************)
(* Generation runs with recipients that fail: a zone that does not load,   *)
(* or an insert that fails inside the recipient's transaction.             *)
(***************************************************************************)
Stages == {"tasks", "medication_administrations", "shifts"}

\* Two recipients of one household and a third of another; the first may
\* carry a zone identifier that does not load.
InitFail ==
    /\ InitStore
    /\ \E z \in {"America/New_York", "Mars/Olympus_Mons"} :
          timezone = [r \in {"r1", "r2", "r3"} |->
                         CASE r = "r1" -> z [] r = "r2" -> "UTC" [] r = "r3" -> "Asia/Tokyo"]
    /\ task_templates = [x \in {"T1", "T2", "T3"} |->
                            TaskTemplate(CASE x = "T1" -> "r1" [] x = "T2" -> "r2"
                                           [] x = "T3" -> "r3", DailyMorning)]
    /\ medications = [x \in {"M1"} |->
                        [care_recipient_id |-> "r1", is_prn |-> FALSE,
                         discontinued |-> FALSE]]
    /\ medication_schedules = [x \in {"S1"} |-> Schedule("M1", <<20, 0>>)]
    /\ shift_templates = Empty

\* From now on an insert of this stage fails for the recipient.
InjectFault(recipientId, stage) ==
    /\ \A f \in proc.failing : f[1] # recipientId
    /\ proc' = [proc EXCEPT !.failing = proc.failing \cup {<<recipientId, stage>>}]
    /\ lastOp' = Op("fault", recipientId, 0, NoWindows)
    /\ UNCHANGED <<now, timezone, task_templates, medications, medication_schedules,
                   shift_templates, tasks, medication_administrations, shifts,
                   ops, runs, probe, checker,
                   workers, auth, config>>

\* The fault is gone.
ClearFault(recipientId) ==
    /\ \E f \in proc.failing : f[1] = recipientId
    /\ proc' = [proc EXCEPT !.failing = {f \in proc.failing : f[1] # recipientId}]
    /\ lastOp' = Op("faultCleared", recipientId, 0, NoWindows)
    /\ UNCHANGED <<now, timezone, task_templates, medications, medication_schedules,
                   shift_templates, tasks, medication_administrations, shifts,
                   ops, runs, probe, checker,
                   workers, auth, config>>

NextFail ==
    \/ Advance(MaxFailNow)
    \/ SchedulerTick
    \/ \E r \in {"r1", "r2"}, stage \in Stages : InjectFault(r, stage)
    \/ \E r \in RecipientIds : ClearFault(r)

SpecFail == InitFail /\ [][NextFail]_vars

(***************************************************************************)
(* Generation while the stored ciphertext is re-encrypted under a new key. *)
(***************************************************************************)
InitRotation ==
    /\ InitStore
    /\ timezone = [r \in {"r1"} |-> "America/New_York"]
    /\ task_templates = [x \in {"T1"} |-> TaskTemplate("r1", DailyMorning)]
    /\ medications = [x \in {"M1"} |->
                        [care_recipient_id |-> "r1", is_prn |-> FALSE,
                         discontinued |-> FALSE]]
    /\ medication_schedules = [x \in {"S1"} |-> Schedule("M1", <<20, 0>>)]
    /\ shift_templates = Empty

\* The key rotation service sets its flag before it starts.
BeginKeyRotation ==
    /\ ~proc.rotation
    /\ proc' = [proc EXCEPT !.rotation = TRUE]
    /\ lastOp' = Op("rotationBegin", NULL, 0, NoWindows)
    /\ UNCHANGED <<now, timezone, task_templates, medications, medication_schedules,
                   shift_templates, tasks, medication_administrations, shifts,
                   ops, runs, probe, checker,
                   workers, auth, config>>

\* The key rotation service clears its flag when it is done.
EndKeyRotation ==
    /\ proc.rotation
    /\ proc' = [proc EXCEPT !.rotation = FALSE]
    /\ lastOp' = Op("rotationEnd", NULL, 0, NoWindows)
    /\ UNCHANGED <<now, timezone, task_templates, medications, medication_schedules,
                   shift_templates, tasks, medication_administrations, shifts,
                   ops, runs, probe, checker,
                   workers, auth, config>>

NextRotation ==
    \/ Advance(MaxNow)
    \/ SchedulerTick
    \/ BeginKeyRotation
    \/ EndKeyRotation
    \/ \E rule \in LateRules : CreateTemplate("T2", "r1", rule)
    \/ \E id \in DOMAIN task_templates, rule \in Rules : UpdateTemplate(id, rule)

SpecRotation == InitRotation /\ [][NextRotation]_vars

(***************************************************************************)
(* Process startup.                                                        *)
(***************************************************************************)
InitStartup ==
    /\ now = StartNow
    /\ tasks = {}
    /\ medication_administrations = {}
    /\ shifts = {}
    /\ lastOp = Op("start", NULL, 0, NoWindows)
    /\ ops = 0
    /\ runs = Idle
    /\ probe = NoProbe
    /\ checker = CheckerAt(StartNow)
    /\ \E entry \in {"main", "run"} : proc = Booting(entry)
    /\ workers = NoWorkers
    /\ auth = NoAuth
    /\ config = NoConfig
    /\ timezone = [r \in {"r1"} |-> "America/New_York"]
    /\ \E h \in Households :
          /\ task_templates = h.task_templates
          /\ medications = h.medications
          /\ medication_schedules = h.medication_schedules
          /\ shift_templates = h.shift_templates

\* main, step 4: the catch-up generation, synchronous.
StartupGeneration ==
    LET new == GenerateAllInstances(timezone, now)
    IN  /\ proc.entry = "main"
        /\ proc.phase = "boot"
        /\ ~proc.generated
        /\ tasks' = tasks \cup new.tasks
        /\ medication_administrations' =
              medication_administrations \cup new.medication_administrations
        /\ shifts' = shifts \cup new.shifts
        /\ lastOp' = Op("generate", NULL, new.count,
                        [r \in RecipientIds |-> Windows(timezone, now)[r].Start])
        /\ proc' = [proc EXCEPT !.errs = new.errs, !.generated = TRUE]
        /\ UNCHANGED <<now, timezone, task_templates, medications,
                       medication_schedules, shift_templates, ops, runs, probe,
                       checker,
                       workers, auth, config>>

\* main, step 8, after the generation and the background workers: the HTTP
\* server starts.
MainListenAndServe ==
    /\ proc.entry = "main"
    /\ proc.phase = "boot"
    /\ proc.generated
    /\ proc' = [proc EXCEPT !.phase = "serving"]
    /\ lastOp' = Op("listen", NULL, 0, NoWindows)
    /\ UNCHANGED <<now, timezone, task_templates, medications, medication_schedules,
                   shift_templates, tasks, medication_administrations, shifts,
                   ops, runs, probe, checker,
                   workers, auth, config>>

\* run: database, migrations, encryption, server.New, then srv.Start.
RunServerStart ==
    /\ proc.entry = "run"
    /\ proc.phase = "boot"
    /\ proc' = [proc EXCEPT !.phase = "serving"]
    /\ lastOp' = Op("listen", NULL, 0, NoWindows)
    /\ UNCHANGED <<now, timezone, task_templates, medications, medication_schedules,
                   shift_templates, tasks, medication_administrations, shifts,
                   ops, runs, probe, checker,
                   workers, auth, config>>

\* The server answers a request.
ServeRequest ==
    /\ proc.phase = "serving"
    /\ proc.requests < MaxRequests
    /\ proc' = [proc EXCEPT !.requests = proc.requests + 1]
    /\ lastOp' = Op("request", NULL, 0, NoWindows)
    /\ UNCHANGED <<now, timezone, task_templates, medications, medication_schedules,
                   shift_templates, tasks, medication_administrations, shifts,
                   ops, runs, probe, checker,
                   workers, auth, config>>

\* main, step 5: the background scheduler, started after the catch-up run.
BackgroundTick ==
    /\ proc.entry = "main"
    /\ proc.generated
    /\ SchedulerTick

NextStartup ==
    \/ Advance(MaxNow)
    \/ StartupGeneration
    \/ MainListenAndServe
    \/ RunServerStart
    \/ ServeRequest
    \/ BackgroundTick

SpecStartup == InitStartup /\ [][NextStartup]_vars

(***************************************************************************)
(* The background goroutines: each is a ticker loop that selects between   *)
(* its ticker and the cancellation of its context.  A loop that is blocked *)
(* in its select is woken by whichever of the two happens first; a loop    *)
(* that comes back to its select with both ready takes either one.         *)
(***************************************************************************)
WorkerNames == {"scheduler", "overdue-checker", "housekeeping"}

initialBackoff == 1

maxBackoff == 300

Min(a, b) == IF a < b THEN a ELSE b

\* safeGo: backoff = min(backoff*2, maxBackoff), in seconds.
nextBackoff(backoff) == Min(backoff * 2, maxBackoff)

\* Faulty variant: the goroutine goes on to wait and restart although its
\* context is cancelled.
afterPanic_restarting(cancelled) == "backoff"

\* safeGo after fn has ended in a recovered panic: with the context cancelled
\* the goroutine returns, otherwise it waits for the backoff delay.
afterPanic(cancelled) == IF cancelled THEN "stopped" ELSE "backoff"

\* Where a loop function begins: StartScheduler runs its catch-up generation
\* before it creates its ticker, the other two go straight to their select.
EntryPc(name) == IF name = "scheduler" THEN "startup" ELSE "select"

\* What a run writes when it writes nothing.
NoRun ==
    [tasks |-> {}, medication_administrations |-> {}, shifts |-> {},
     count |-> 0, errs |-> {}]

\* The work a worker takes up when its function is entered or its tick
\* begins: the scheduler's is a generation run, which reads the templates
\* and fixes what it will insert; a pass of the checker with nothing due and
\* a housekeeping pass with nothing to prune write nothing.  A generation
\* run is the only writer of its tables here, so that what it inserts is
\* what it found at its beginning.
WorkOf(name) ==
    IF name = "scheduler" THEN GenerateAllInstances(timezone, now) ELSE NoRun

\* The goroutine of one worker as the go statement starts it, with the work
\* of its entry in flight.
Goroutine(name, supervised) ==
    [pc |-> EntryPc(name), pending |-> FALSE, backoff |-> initialBackoff,
     supervised |-> supervised,
     run |-> IF EntryPc(name) = "startup" THEN WorkOf(name) ELSE NoRun]

WorkerOp(name, w) == Op(name, w, 0, NoWindows)

\* The state of worker w with its program counter moved and no work in
\* flight.
AtPc(w, pc) == [workers EXCEPT !.loops[w].pc = pc, !.loops[w].run = NoRun]

\* The state of worker w with a tick begun.
AtTick(w) ==
    [workers EXCEPT !.loops[w].pc = "tick", !.loops[w].pending = FALSE,
                    !.loops[w].run = WorkOf(w)]

\* GenerateAllInstances as the scheduler loop calls it: the rows are stored,
\* the count or the error is logged.
StoreGenerated(name, w, new) ==
    /\ tasks' = tasks \cup new.tasks
    /\ medication_administrations' =
          medication_administrations \cup new.medication_administrations
    /\ shifts' = shifts \cup new.shifts
    /\ proc' = [proc EXCEPT !.errs = new.errs]
    /\ lastOp' = Op(name, w, new.count, NoWindows)

RunGeneration(name, w) == StoreGenerated(name, w, workers.loops[w].run)

StoreUnchanged ==
    UNCHANGED <<now, timezone, task_templates, medications, medication_schedules,
                shift_templates, ops, runs, probe, checker, auth, config>>

RowsUnchanged ==
    UNCHANGED <<tasks, medication_administrations, shifts, proc>>

\* StartScheduler before its loop: the catch-up generation.
StartupCatchUp(w) ==
    /\ w \in DOMAIN workers.loops
    /\ workers.loops[w].pc = "startup"
    /\ RunGeneration("catchUp", w)
    /\ workers' = AtPc(w, "select")
    /\ StoreUnchanged

\* The ticker fires while the loop is blocked in its select: the receive from
\* ticker.C proceeds and the tick begins.
TickerFires(w) ==
    /\ w \in DOMAIN workers.loops
    /\ workers.loops[w].pc = "blocked"
    /\ workers' = AtTick(w)
    /\ lastOp' = WorkerOp("tickBegin", w)
    /\ StoreUnchanged
    /\ RowsUnchanged

\* The ticker fires while the loop is busy: the tick waits in the channel's
\* buffer of one.
TickerBuffers(w) ==
    /\ w \in DOMAIN workers.loops
    /\ workers.loops[w].pc \in {"tick", "select"}
    /\ ~workers.loops[w].pending
    /\ workers' = [workers EXCEPT !.loops[w].pending = TRUE]
    /\ lastOp' = WorkerOp("tickBuffered", w)
    /\ StoreUnchanged
    /\ RowsUnchanged

\* select, case <-ticker.C.
SelectTick(w) ==
    /\ w \in DOMAIN workers.loops
    /\ workers.loops[w].pc = "select"
    /\ workers.loops[w].pending
    /\ workers' = AtTick(w)
    /\ lastOp' = WorkerOp("tickBegin", w)
    /\ StoreUnchanged
    /\ RowsUnchanged

\* select, case <-ctx.Done(): the loop function returns, and with it the
\* goroutine (safeGo finds ctx.Err() set and does not restart).
SelectDone(w) ==
    /\ w \in DOMAIN workers.loops
    /\ workers.loops[w].pc \in {"select", "done"}
    /\ workers.cancelled
    /\ workers' = AtPc(w, "stopped")
    /\ lastOp' = WorkerOp("loopReturn", w)
    /\ StoreUnchanged
    /\ RowsUnchanged

\* select with neither case ready: the goroutine blocks.
SelectBlock(w) ==
    /\ w \in DOMAIN workers.loops
    /\ workers.loops[w].pc = "select"
    /\ ~workers.loops[w].pending
    /\ ~workers.cancelled
    /\ workers' = AtPc(w, "blocked")
    /\ lastOp' = WorkerOp("block", w)
    /\ StoreUnchanged
    /\ RowsUnchanged

\* The tick in flight comes to its end and the loop goes back to its select.
\* The scheduler's tick is a generation run, whose error is logged; a pass of
\* the checker with nothing due and a housekeeping pass with nothing to
\* prune leave the tables as they are.
FinishTick(w) ==
    /\ w \in DOMAIN workers.loops
    /\ workers.loops[w].pc = "tick"
    /\ IF w = "scheduler"
         THEN RunGeneration("tickEnd", w)
         ELSE lastOp' = WorkerOp("tickEnd", w) /\ RowsUnchanged
    /\ workers' = AtPc(w, "select")
    /\ StoreUnchanged

\* The work of the goroutine panics: the deferred recover of safeGo catches
\* it and logs it, the deferred ticker.Stop() has run.
Panic(w) ==
    /\ w \in DOMAIN workers.loops
    /\ workers.loops[w].supervised
    /\ workers.loops[w].pc \in {"tick", "startup"}
    /\ workers' = [workers EXCEPT
                      !.loops[w].pc = afterPanic(workers.cancelled),
                      !.loops[w].pending = FALSE,
                      !.loops[w].run = NoRun]
    /\ lastOp' = WorkerOp("panic", w)
    /\ StoreUnchanged
    /\ RowsUnchanged

\* time.After(backoff) fires: the delay is doubled up to its cap and fn is
\* called again.
Restart(w) ==
    /\ w \in DOMAIN workers.loops
    /\ workers.loops[w].pc = "backoff"
    /\ workers' = [workers EXCEPT
                      !.loops[w].pc = EntryPc(w),
                      !.loops[w].backoff = nextBackoff(workers.loops[w].backoff),
                      !.loops[w].run = Goroutine(w, TRUE).run]
    /\ lastOp' = Op("restart", w, workers.loops[w].backoff, NoWindows)
    /\ StoreUnchanged
    /\ RowsUnchanged

\* The context is cancelled (SIGINT, SIGTERM, or cancel() of the test): every
\* goroutine blocked in a select is woken on ctx.Done().
Cancel ==
    /\ ~workers.cancelled
    /\ workers' = [cancelled |-> TRUE,
                   loops |-> [w \in DOMAIN workers.loops |->
                                 IF workers.loops[w].pc \in {"blocked", "backoff"}
                                   THEN [workers.loops[w] EXCEPT !.pc = "done"]
                                   ELSE workers.loops[w]]]
    /\ lastOp' = WorkerOp("cancel", NULL)
    /\ StoreUnchanged
    /\ RowsUnchanged

\* The household the workers run over: one recipient, one daily task.
InitWorkerStore ==
    /\ InitTables
    /\ auth = NoAuth
    /\ config = NoConfig
    /\ timezone = [r \in {"r1"} |-> "America/New_York"]
    /\ task_templates = [x \in {"T1"} |-> TaskTemplate("r1", DailyMorning)]
    /\ medications = Empty
    /\ medication_schedules = Empty
    /\ shift_templates = Empty
    /\ \E failing \in {{}, {<<"r1", "tasks">>}} :
          proc = [Serving EXCEPT !.failing = failing]

\* The three loops started as goroutines of their own (main of the startup
\* sequence; TestGracefulShutdown).
InitLoops ==
    /\ InitWorkerStore
    /\ workers = [cancelled |-> FALSE,
                  loops |-> [w \in WorkerNames |-> Goroutine(w, FALSE)]]

LoopStep(w) ==
    \/ StartupCatchUp(w)
    \/ TickerFires(w)
    \/ TickerBuffers(w)
    \/ SelectTick(w)
    \/ SelectDone(w)
    \/ SelectBlock(w)
    \/ FinishTick(w)

NextLoops ==
    \/ \E w \in WorkerNames : LoopStep(w)
    \/ Cancel

SpecLoops == InitLoops /\ [][NextLoops]_vars

\* The Go scheduler lets a goroutine that can run do so, and a select with
\* several cases ready picks among them uniformly at random, so that a case
\* that is ready again and again is taken in the end: some work in flight
\* comes to its end, and some loop that finds its context cancelled returns.
SpecLoopsFair ==
    /\ SpecLoops
    /\ WF_vars(\E w \in WorkerNames : StartupCatchUp(w) \/ FinishTick(w))
    /\ SF_vars(\E w \in WorkerNames : SelectDone(w))

\* One of the workers started through safeGo.
InitSafeGo ==
    /\ InitWorkerStore
    /\ \E w \in WorkerNames :
          workers = [cancelled |-> FALSE,
                     loops |-> [x \in {w} |-> Goroutine(w, TRUE)]]

NextSafeGo ==
    \/ \E w \in WorkerNames : LoopStep(w) \/ Panic(w) \/ Restart(w)
    \/ Cancel

SpecSafeGo == InitSafeGo /\ [][NextSafeGo]_vars

(***************************************************************************)
(* Template edits that leave the recurrence rule alone.                    *)
(***************************************************************************)
Titles == {"v1", "v2"}

\* TaskService.UpdateTemplate with an input that changes the title and not
\* the recurrence rule: the template is stored and ReconcileTaskTemplate is
\* called with the old and the new template, as for every update.
UpdateTemplateContent(id, title) ==
    /\ ops < MaxOps
    /\ id \in DOMAIN task_templates
    /\ title # task_templates[id].title
    /\ LET tpl == [task_templates[id] EXCEPT !.title = title]
       IN  /\ task_templates' = [task_templates EXCEPT ![id] = tpl]
           /\ tasks' = ReconcileTaskTemplate(tasks, id, tpl,
                           timezone[tpl.care_recipient_id], now)
           /\ lastOp' = Op("contentEdit", id, Cardinality(tasks' \ tasks), NoWindows)
    /\ ops' = ops + 1
    /\ UNCHANGED <<now, timezone, medications, medication_schedules,
                   shift_templates, medication_administrations, shifts, runs, probe,
                   checker, proc, workers, auth, config>>

InitContent ==
    /\ InitStore
    /\ timezone = [r \in {"r1"} |-> "America/New_York"]
    /\ task_templates = [x \in {"T1"} |-> TaskTemplate("r1", DailyMorning)]
    /\ medications = Empty
    /\ medication_schedules = Empty
    /\ shift_templates = Empty

NextContent ==
    \/ Advance(MaxNow)
    \/ SchedulerTick
    \/ \E id \in DOMAIN task_templates, title \in Titles :
          UpdateTemplateContent(id, title)
    \/ \E row \in tasks : CompleteTask(row)
    \/ \E row \in tasks : AnnotateTask(row)

SpecContent == InitContent /\ [][NextContent]_vars

(***************************************************************************)
(* Medications: scheduled and as-needed ones, their schedules, and the     *)
(* administrations a caregiver logs on her own.                            *)
(***************************************************************************)
\* scheduled_at of an administration that was not scheduled is NULL.  In SQL
\* no comparison with NULL is true, and every query here that reads
\* scheduled_at asks for it to be later than some instant: NULL is an instant
\* before all others.
NullInstant == FarPast

Medication(recipientId, isPrn) ==
    [care_recipient_id |-> recipientId, is_prn |-> isPrn, discontinued |-> FALSE]

\* The generator's GenerateForMedicationSchedule, called for one schedule
\* outside the scheduler's runs: the rows of the generation loop for that
\* schedule, none for a medication the generator skips.
GenerateForSchedule(rows, id, sched, t) ==
    LET recipientId == medications[sched.medication_id].care_recipient_id
    IN  IF MedicationGenerated(medications[sched.medication_id])
          THEN GenerateForMedicationSchedule(rows, id, sched, recipientId,
                   timezone[recipientId],
                   GetGenerationWindowForRecipient(timezone[recipientId], t), t)
          ELSE {}

\* MedicationService.AddSchedule: the schedule is stored, then
\* GenerateForMedicationSchedule.
AddSchedule(id, medicationId, timeOfDay) ==
    /\ ops < MaxOps
    /\ id \notin DOMAIN medication_schedules
    /\ medicationId \in DOMAIN medications
    /\ LET sched == Schedule(medicationId, timeOfDay)
           new == GenerateForSchedule(medication_administrations, id, sched, now)
       IN  /\ medication_schedules' =
                 [x \in DOMAIN medication_schedules \cup {id} |->
                     IF x = id THEN sched ELSE medication_schedules[x]]
           /\ medication_administrations' = medication_administrations \cup new
           /\ lastOp' = Op("addSchedule", id, Cardinality(new), NoWindows)
    /\ ops' = ops + 1
    /\ UNCHANGED <<now, timezone, task_templates, medications, shift_templates,
                   tasks, shifts, runs, probe, checker, proc, workers, auth, config>>

\* A caregiver logs that she gave a medication: an administration with no
\* schedule and no scheduled time, given now.
LogAdministration(medicationId) ==
    /\ ops < MaxOps
    /\ medicationId \in DOMAIN medications
    /\ medication_administrations' = medication_administrations \cup
          {[MedAdminRow(medication_administrations, medicationId, NULL,
                        medications[medicationId].care_recipient_id, NullInstant)
               EXCEPT !.status = "given"]}
    /\ lastOp' = Op("logAdministration", medicationId, 1, NoWindows)
    /\ ops' = ops + 1
    /\ UNCHANGED <<now, timezone, task_templates, medications,
                   medication_schedules, shift_templates, tasks, shifts, runs,
                   probe, checker, proc, workers, auth, config>>

\* One recipient with a scheduled medication and an as-needed one; each has
\* a schedule row for 20:00.
InitMeds ==
    /\ InitStore
    /\ timezone = [r \in {"r1"} |-> "America/New_York"]
    /\ task_templates = Empty
    /\ medications = [x \in {"M1", "M2"} |-> Medication("r1", x = "M2")]
    /\ medication_schedules =
          [x \in {"S1", "S2"} |->
              Schedule(IF x = "S1" THEN "M1" ELSE "M2", <<20, 0>>)]
    /\ shift_templates = Empty

NextMeds ==
    \/ Advance(MaxNow)
    \/ SchedulerTick
    \/ \E id \in DOMAIN medications : Discontinue(id)
    \/ \E id \in DOMAIN medication_schedules : DeactivateSchedule(id)
    \/ \E id \in DOMAIN medication_schedules : ReactivateSchedule(id)
    \/ \E medicationId \in DOMAIN medications :
          AddSchedule("S3", medicationId, <<21, 0>>)
    \/ \E medicationId \in DOMAIN medications : LogAdministration(medicationId)
    \/ \E r \in RecipientIds, z \in {"UTC", "America/New_York"} : UpdateTimezone(r, z)

SpecMeds == InitMeds /\ [][NextMeds]_vars

(***************************************************************************)
(* The recurrence matcher on its own: one call of MatchesDate on a rule    *)
(* and a calendar date.                                                    *)
(***************************************************************************)
FirstMatchMonth == 3
MaxMatchMonth == 5

\* Frequency values of a stored rule; the rule is JSON, so any string can
\* be there.
MatchFrequencies == {"daily", "weekly", "monthly", "yearly", ""}

MatchDaySets == {{}, {"mon", "wed", "fri"}, {"sat", "sun"}, {"tue"}}

MatchDaysOfMonth == {0, 1, 15, 29, 30, 31}

\* time.Date(2026, month, day, 0, 0, 0, 0, time.UTC) as a day number.
Date(month, day) == DaysBefore(month) + day - 66

MatchProbe(state, rule, month, day) ==
    [state |-> state, rule |-> rule, month |-> month, day |-> day,
     date |-> Date(month, day), result |-> NULL]

InitMatch ==
    /\ now = StartNow
    /\ tasks = {}
    /\ medication_administrations = {}
    /\ shifts = {}
    /\ lastOp = Op("start", NULL, 0, NoWindows)
    /\ ops = 0
    /\ runs = Idle
    /\ checker = CheckerAt(StartNow)
    /\ proc = Serving
    /\ workers = NoWorkers
    /\ auth = NoAuth
    /\ config = NoConfig
    /\ timezone = [r \in {"r1"} |-> "UTC"]
    /\ task_templates = Empty
    /\ medications = Empty
    /\ medication_schedules = Empty
    /\ shift_templates = Empty
    /\ \E freq \in MatchFrequencies, days \in MatchDaySets,
          dom \in MatchDaysOfMonth, month \in FirstMatchMonth .. MaxMatchMonth :
          \E day \in 1 .. DaysInMonth[month] :
             probe = MatchProbe("asked", Rule(freq, {<<8, 0>>}, days, dom),
                                month, day)

\* rule.MatchesDate(date) is called.
Match ==
    /\ probe.state = "asked"
    /\ probe' = [probe EXCEPT !.state = "matched",
                              !.result = MatchesDate(probe.rule, probe.date)]
    /\ UNCHANGED <<now, timezone, task_templates, medications, medication_schedules,
                   shift_templates, tasks, medication_administrations, shifts,
                   lastOp, ops, runs, checker, proc, workers, auth, config>>

NextMatch == Match

SpecMatch == InitMatch /\ [][NextMatch]_vars

(***************************************************************************)
(* The transient tables (sessions, login attempts, notifications) and the  *)
(* housekeeping worker that prunes them.                                   *)
(***************************************************************************)
\* 'now', '-7 days' of PruneOldLoginAttempts.
loginAttemptRetention == 7 * MinutesPerDay

\* 'now', '-90 days' of PruneOldNotifications.
notificationRetention == 90 * MinutesPerDay

\* sessionDuration = 30 * 24 * time.Hour
sessionDuration == 30 * MinutesPerDay

SessionRow(id, userId, householdId, expiresAt, t) ==
    [id |-> id, user_id |-> userId, household_id |-> householdId,
     expires_at |-> expiresAt, last_active_at |-> t]

LoginAttemptRow(id, emailHash, ip, succeeded, t) ==
    [id |-> id, email_hash |-> emailHash, ip_address |-> ip,
     succeeded |-> succeeded, attempted_at |-> t]

\* read_at and dismissed_at are NULL in a new notification.
NotificationRow(id, createdAt) ==
    [id |-> id, created_at |-> createdAt, read_at |-> NullInstant,
     dismissed_at |-> NullInstant]

\* The two statements that delete expired sessions.
SessionPruneQueries == {"PruneExpiredSessions", "DeleteExpiredSessions"}

\* DELETE FROM sessions WHERE expires_at < now (PruneExpiredSessions), or
\* WHERE expires_at <= now (DeleteExpiredSessions): the rows that stay.
pruneExpiredSessions(rows, query, t) ==
    {s \in rows : ~(IF query = "PruneExpiredSessions"
                      THEN s.expires_at < t
                      ELSE s.expires_at <= t)}

\* DELETE FROM login_attempts WHERE attempted_at < now - 7 days.
pruneOldLoginAttempts(rows, t) ==
    {a \in rows : ~(a.attempted_at < t - loginAttemptRetention)}

\* Faulty variant: unread notifications are pruned with the others.
pruneOldNotifications_unreadToo(rows, t) ==
    {n \in rows : ~(n.created_at < t - notificationRetention)}

\* DELETE FROM notifications WHERE created_at < now - 90 days
\*   AND (read_at IS NOT NULL OR dismissed_at IS NOT NULL).
pruneOldNotifications(rows, t) ==
    {n \in rows : ~(/\ n.created_at < t - notificationRetention
                    /\ (n.read_at # NullInstant \/ n.dismissed_at # NullInstant))}

AuthUnchanged ==
    UNCHANGED <<timezone, task_templates, medications, medication_schedules,
                shift_templates, tasks, medication_administrations, shifts,
                runs, probe, checker, proc, workers, config>>

\* One tick of StartHousekeepingWorker: the three prunes, one after the
\* other.
HousekeepingPass(query) ==
    /\ ops < MaxOps
    /\ LET sessions == pruneExpiredSessions(auth.sessions, query, now)
           attempts == pruneOldLoginAttempts(auth.login_attempts, now)
           notifications == pruneOldNotifications(auth.notifications, now)
       IN  /\ auth' = [auth EXCEPT !.sessions = sessions,
                                   !.login_attempts = attempts,
                                   !.notifications = notifications]
           /\ lastOp' = Op("housekeeping", query,
                           Cardinality(auth.sessions \ sessions)
                             + Cardinality(auth.login_attempts \ attempts)
                             + Cardinality(auth.notifications \ notifications),
                           NoWindows)
    /\ ops' = ops + 1
    /\ UNCHANGED now
    /\ AuthUnchanged

\* The user reads a notification (read_at) or dismisses it (dismissed_at).
MarkNotification(id, column) ==
    /\ ops < MaxOps
    /\ \E n \in auth.notifications :
          /\ n.id = id
          /\ n[column] = NullInstant
          /\ auth' = [auth EXCEPT !.notifications =
                         (@ \ {n}) \cup {[n EXCEPT ![column] = now]}]
    /\ lastOp' = Op(column, NULL, 0, NoWindows)
    /\ ops' = ops + 1
    /\ UNCHANGED now
    /\ AuthUnchanged

\* The clock, a minute at a time.
MaxMinutes == 3

Minute ==
    /\ now < StartNow + MaxMinutes
    /\ now' = now + 1
    /\ UNCHANGED <<lastOp, ops, auth>>
    /\ AuthUnchanged

\* Rows on both sides of each threshold: sessions that expire around the
\* start, login attempts about seven days old, notifications about ninety
\* days old and one much older.
InitHousekeeping ==
    /\ InitTables
    /\ proc = Serving
    /\ workers = NoWorkers
    /\ config = NoConfig
    /\ timezone = [r \in {"r1"} |-> "UTC"]
    /\ task_templates = Empty
    /\ medications = Empty
    /\ medication_schedules = Empty
    /\ shift_templates = Empty
    /\ auth = [NoAuth EXCEPT
          !.sessions =
              {SessionRow(<<"s", k>>, "u1", "h1", StartNow + k, StartNow - 1) : k \in 0 .. 2}
                \cup {SessionRow(<<"s", 9>>, "u1", "h1", StartNow + sessionDuration,
                                StartNow)},
          !.login_attempts =
              {LoginAttemptRow(<<"a", k>>, "e1", "ip1", FALSE,
                               StartNow - loginAttemptRetention + k) : k \in 0 .. 2}
                \cup {LoginAttemptRow(<<"a", 9>>, "e1", "ip1", TRUE, StartNow)},
          !.notifications =
              {NotificationRow(<<"n", k>>, StartNow - notificationRetention + k) :
                  k \in 1 .. 2}
                \cup {NotificationRow(<<"n", 9>>, StartNow - 2 * notificationRetention)}]

NextHousekeeping ==
    \/ Minute
    \/ \E query \in SessionPruneQueries : HousekeepingPass(query)
    \/ \E n \in auth.notifications, column \in {"read_at", "dismissed_at"} :
          MarkNotification(n.id, column)

SpecHousekeeping == InitHousekeeping /\ [][NextHousekeeping]_vars

(***************************************************************************)
(* The auth service: Login with its rate limits, ValidateSession, Logout,  *)
(* and the handlers in front of them.                                      *)
(***************************************************************************)
maxFailedLoginsByEmail == 5

maxFailedLoginsByIP == 20

\* rateLimitWindow = "-15 minutes"
rateLimitWindow == 15

\* rateLimitRetryAfter = 15 * time.Minute
rateLimitRetryAfter == 15

\* Service calls and requests in one behaviour.
MaxCalls == 2

InvalidCredentials == "Invalid email or password"

\* strings.TrimSpace(strings.ToLower(email)), on the addresses of the model.
Normalize(email) ==
    CASE email = " Ann@X " -> "ann@x"
      [] email = " " -> ""
      [] OTHER -> email

\* s.hmac.Hash(email): a keyed hash, different for different addresses.
Hash(email) == <<"hmac", email>>

\* bcrypt.GenerateFromPassword and bcrypt.CompareHashAndPassword.
GenerateFromPassword(password) == <<"bcrypt", password>>

CompareHashAndPassword(hash, password) == hash = GenerateFromPassword(password)

\* password_hash is a sql.NullString.
NullString == [Valid |-> FALSE, String |-> GenerateFromPassword("")]

UserRow(email, password, householdId, role) ==
    [email_hash |-> Hash(email),
     password_hash |-> IF password = NULL
                         THEN NullString
                         ELSE [Valid |-> TRUE, String |-> GenerateFromPassword(password)],
     household_id |-> householdId,
     role |-> role,
     deleted_at |-> NullInstant]

\* apperror.HTTPStatus
HTTPStatus(type) ==
    CASE type = "Validation" -> 400
      [] type = "NotFound" -> 404
      [] type = "Unauthorized" -> 401
      [] type = "Forbidden" -> 403
      [] type = "Conflict" -> 409
      [] type = "RateLimited" -> 429
      [] type = "Unavailable" -> 503
      [] OTHER -> 500

\* Faulty variant: soft-deleted users are found too.
GetUserByEmailHash_withDeleted(users, emailHash) ==
    {u \in DOMAIN users : users[u].email_hash = emailHash}

\* SELECT * FROM users WHERE email_hash = ? AND deleted_at IS NULL
GetUserByEmailHash(users, emailHash) ==
    {u \in DOMAIN users : /\ users[u].email_hash = emailHash
                          /\ users[u].deleted_at = NullInstant}

\* SELECT COUNT(*) FROM login_attempts WHERE email_hash = ? AND succeeded = 0
\*   AND attempted_at > datetime('now', '-15 minutes')
CountRecentFailedByEmail(attempts, emailHash, t) ==
    Cardinality({a \in attempts : /\ a.email_hash = emailHash
                                  /\ ~a.succeeded
                                  /\ a.attempted_at > t - rateLimitWindow})

CountRecentFailedByIP(attempts, ip, t) ==
    Cardinality({a \in attempts : /\ a.ip_address = ip
                                  /\ ~a.succeeded
                                  /\ a.attempted_at > t - rateLimitWindow})

\* Faulty variant: the limits are reached one attempt later.
checkRateLimits_above(attempts, emailHash, ip, t) ==
    IF CountRecentFailedByEmail(attempts, emailHash, t) > maxFailedLoginsByEmail
      THEN "Too many login attempts. Please try again later."
      ELSE IF CountRecentFailedByIP(attempts, ip, t) > maxFailedLoginsByIP
             THEN "Too many login attempts from this location. Please try again later."
             ELSE NULL

\* The message of the RateLimited error, or NULL for nil.
checkRateLimits(attempts, emailHash, ip, t) ==
    IF CountRecentFailedByEmail(attempts, emailHash, t) >= maxFailedLoginsByEmail
      THEN "Too many login attempts. Please try again later."
      ELSE IF CountRecentFailedByIP(attempts, ip, t) >= maxFailedLoginsByIP
             THEN "Too many login attempts from this location. Please try again later."
             ELSE NULL

LoginOutcome(type, message, attempt, user, passwordChecked) ==
    [type |-> type, message |-> message, attempt |-> attempt, user |-> user,
     passwordChecked |-> passwordChecked]

\* Faulty variant: a login turned away by the rate limiter is recorded as a
\* failed attempt.
login_recordsLimited(users, attempts, email, password, ip, t) ==
    LET emailHash == Hash(Normalize(email))
        limited == checkRateLimits(attempts, emailHash, ip, t)
        found == GetUserByEmailHash(users, emailHash)
    IN  IF Normalize(email) = "" \/ password = ""
          THEN LoginOutcome("Validation",
                            IF Normalize(email) = "" THEN "Email is required"
                                                     ELSE "Password is required",
                            "none", NULL, FALSE)
        ELSE IF limited # NULL
          THEN LoginOutcome("RateLimited", limited, "failed", NULL, FALSE)
        ELSE IF found = {}
          THEN LoginOutcome("Unauthorized", InvalidCredentials, "failed", NULL, FALSE)
        ELSE LET user == CHOOSE u \in found : TRUE
             IN  IF ~users[user].password_hash.Valid
                   THEN LoginOutcome("Unauthorized", InvalidCredentials, "failed",
                                     NULL, FALSE)
                 ELSE IF ~CompareHashAndPassword(users[user].password_hash.String,
                                                 password)
                   THEN LoginOutcome("Unauthorized", InvalidCredentials, "failed",
                                     NULL, TRUE)
                 ELSE LoginOutcome("OK", NULL, "succeeded", user, TRUE)

\* Service.Login up to the recording of the attempt: the error (or "OK"),
\* whether an attempt is recorded and with which succeeded flag, the user,
\* and whether the password was compared.
login(users, attempts, email, password, ip, t) ==
    LET emailHash == Hash(Normalize(email))
        limited == checkRateLimits(attempts, emailHash, ip, t)
        found == GetUserByEmailHash(users, emailHash)
    IN  IF Normalize(email) = "" \/ password = ""
          THEN LoginOutcome("Validation",
                            IF Normalize(email) = "" THEN "Email is required"
                                                     ELSE "Password is required",
                            "none", NULL, FALSE)
        ELSE IF limited # NULL
          THEN LoginOutcome("RateLimited", limited, "none", NULL, FALSE)
        ELSE IF found = {}
          THEN LoginOutcome("Unauthorized", InvalidCredentials, "failed", NULL, FALSE)
        ELSE LET user == CHOOSE u \in found : TRUE
             IN  IF ~users[user].password_hash.Valid
                   THEN LoginOutcome("Unauthorized", InvalidCredentials, "failed",
                                     NULL, FALSE)
                 ELSE IF ~CompareHashAndPassword(users[user].password_hash.String,
                                                 password)
                   THEN LoginOutcome("Unauthorized", InvalidCredentials, "failed",
                                     NULL, TRUE)
                 ELSE LoginOutcome("OK", NULL, "succeeded", user, TRUE)

\* HandleLogin: Service.Login, then the session cookie and the redirect, or
\* renderLoginError with the status of the error and Retry-After.
Login(email, password, ip) ==
    /\ ops < MaxCalls
    /\ LET out == login(auth.users, auth.login_attempts, email, password, ip, now)
           id == auth.nextId
           input == [NoInput EXCEPT !.email = email, !.password = password,
                                    !.ip = ip]
       IN  /\ auth' =
                 [auth EXCEPT
                    !.login_attempts =
                        IF out.attempt = "none" THEN @
                        ELSE @ \cup {LoginAttemptRow(id, Hash(Normalize(email)), ip,
                                                     out.attempt = "succeeded", now)},
                    !.sessions =
                        IF out.type = "OK"
                          THEN @ \cup {SessionRow(id, out.user,
                                                   auth.users[out.user].household_id,
                                                   now + sessionDuration, now)}
                          ELSE @,
                    !.nextId = id + 1,
                    !.result =
                        [Result("login", out.type, out.message,
                                IF out.type = "OK" THEN id ELSE NoSession)
                           EXCEPT !.user = out.user,
                                  !.status = IF out.type = "OK" THEN 303
                                             ELSE HTTPStatus(out.type),
                                  !.retryAfter = IF out.type = "RateLimited"
                                                   THEN rateLimitRetryAfter * 60
                                                   ELSE 0,
                                  !.cookie = IF out.type = "OK" THEN "set" ELSE "kept",
                                  !.redirect = IF out.type = "OK" THEN "/" ELSE NULL,
                                  !.passwordChecked = out.passwordChecked,
                                  !.input = input]]
           /\ lastOp' = Op("login", id, IF out.attempt = "none" THEN 0 ELSE 1, NoWindows)
    /\ ops' = ops + 1
    /\ UNCHANGED now
    /\ AuthUnchanged

\* Faulty variant: the expiry of the session is not looked at.
GetSessionWithUser_anyExpiry(sessions, users, id, t) ==
    {s \in sessions : s.id = id /\ s.user_id \in DOMAIN users}

\* SELECT ... FROM sessions s JOIN users u ON u.id = s.user_id
\*   WHERE s.id = ? AND s.expires_at > now
GetSessionWithUser(sessions, users, id, t) ==
    {s \in sessions : s.id = id /\ s.user_id \in DOMAIN users /\ s.expires_at > t}

\* Faulty variant: the row stays.
DeleteSession_kept(sessions, id) == sessions

\* DELETE FROM sessions WHERE id = ?
DeleteSession(sessions, id) == {s \in sessions : s.id # id}

\* UPDATE sessions SET last_active_at = now WHERE id = ?
UpdateSessionLastActive(sessions, id, t) ==
    {IF s.id = id THEN [s EXCEPT !.last_active_at = t] ELSE s : s \in sessions}

\* Service.ValidateSession on the tables a: the tables and the result after
\* the call.
validateSession(a, id, t) ==
    LET rows == GetSessionWithUser(a.sessions, a.users, id, t)
        input == [NoInput EXCEPT !.sessionID = id]
    IN  IF rows = {}
          THEN [a EXCEPT !.result =
                   [Result("validateSession", "Unauthorized", "Session expired",
                           NoSession) EXCEPT !.input = input]]
        ELSE LET row == CHOOSE s \in rows : TRUE
             IN  IF a.users[row.user_id].deleted_at # NullInstant
                   THEN [a EXCEPT
                           !.sessions = DeleteSession(@, id),
                           !.result =
                              [Result("validateSession", "Unauthorized",
                                      "Account deactivated", NoSession)
                                 EXCEPT !.input = input]]
                   ELSE [a EXCEPT
                           !.sessions = UpdateSessionLastActive(@, id, t),
                           !.result =
                              [Result("validateSession", "OK", NULL, row.id)
                                 EXCEPT !.user = row.user_id, !.input = input]]

\* Service.Logout on the tables a.
logout(a, id) ==
    [a EXCEPT !.sessions = DeleteSession(@, id),
              !.loggedOut = @ \cup {id},
              !.result = [Result("logout", "OK", NULL, NoSession)
                            EXCEPT !.input = [NoInput EXCEPT !.sessionID = id]]]

ValidateSession(id) ==
    /\ ops < MaxCalls
    /\ auth' = validateSession(auth, id, now)
    /\ lastOp' = Op("validateSession", id, 0, NoWindows)
    /\ ops' = ops + 1
    /\ UNCHANGED now
    /\ AuthUnchanged

Logout(id) ==
    /\ ops < MaxCalls
    /\ auth' = logout(auth, id)
    /\ lastOp' = Op("logout", id, 0, NoWindows)
    /\ ops' = ops + 1
    /\ UNCHANGED now
    /\ AuthUnchanged

\* POST /logout: LoadSession puts the user in the context when the cookie
\* verifies and ValidateSession succeeds; HandleLogout calls Logout for a
\* user in the context, clears the cookie and redirects to /login.
HandleLogout(cookie, htmx) ==
    /\ ops < MaxCalls
    /\ LET loaded == IF cookie.present /\ cookie.valid
                       THEN validateSession(auth, cookie.sessionID, now)
                       ELSE auth
           user == cookie.present /\ cookie.valid /\ loaded.result.type = "OK"
           after == IF user THEN logout(loaded, cookie.sessionID) ELSE loaded
       IN  auth' = [after EXCEPT !.result =
                       [Result("handleLogout", "OK", NULL, NoSession)
                          EXCEPT !.status = IF htmx THEN 200 ELSE 303,
                                 !.cookie = "cleared",
                                 !.redirect = "/login",
                                 !.input = [NoInput EXCEPT !.cookie = cookie,
                                                           !.htmx = htmx,
                                                           !.user = user]]]
    /\ lastOp' = Op("handleLogout", cookie.sessionID, 0, NoWindows)
    /\ ops' = ops + 1
    /\ UNCHANGED now
    /\ AuthUnchanged

\* The clock of the auth tables, a minute at a time.
MaxAuthMinutes == 2

AuthMinute ==
    /\ now < StartNow + MaxAuthMinutes
    /\ now' = now + 1
    /\ UNCHANGED <<lastOp, ops, auth>>
    /\ AuthUnchanged

\* UPDATE users SET deleted_at = now WHERE id = ?
SoftDeleteUser(id) ==
    /\ ops < MaxCalls
    /\ id \in DOMAIN auth.users
    /\ auth.users[id].deleted_at = NullInstant
    /\ auth' = [auth EXCEPT !.users[id].deleted_at = now]
    /\ lastOp' = Op("softDeleteUser", NoSession, 0, NoWindows)
    /\ ops' = ops + 1
    /\ UNCHANGED now
    /\ AuthUnchanged

OtherEmails == <<"o1@x", "o2@x", "o3@x", "o4@x", "o5@x">>

\* Login attempts recorded before the start: none; four failures for ann's
\* address with a success in between and an older failure; nineteen
\* failures from ip1 for other addresses.
AttemptHistories ==
    {{},
     {LoginAttemptRow(100 + k, Hash("ann@x"), "ip3", FALSE, StartNow - 13) : k \in 1 .. 4}
        \cup {LoginAttemptRow(105, Hash("ann@x"), "ip3", TRUE, StartNow - 13),
              LoginAttemptRow(106, Hash("ann@x"), "ip3", FALSE, StartNow - rateLimitWindow)},
     {LoginAttemptRow(100 + k, Hash(OtherEmails[(k % 5) + 1]), "ip1", FALSE,
                      StartNow - 13) : k \in 1 .. 19}}

ClientIPs == {"ip1", "ip2"}

\* The forms posted to /login: ann's address with her password and with a
\* wrong one from each IP address, the addresses of the soft-deleted user,
\* of the user without a password and of nobody, and forms with a field
\* left empty.
LoginForms ==
    ({" Ann@X "} \X {"pw1", "bad"} \X ClientIPs)
      \cup ({"cat@x"} \X {"pw1", "bad"} \X {"ip1"})
      \cup ({"bob@x", "dan@x"} \X {"pw1"} \X {"ip1"})
      \cup {<<" ", "pw1", "ip1">>, <<" Ann@X ", "", "ip2">>}

\* An id no session ever has.
MissingSession == 99

\* The session ids a caller can name: those given out so far, and one that
\* was never given out.
SessionIds(nextId) == (1 .. nextId - 1) \cup {MissingSession}

\* The cookies sent to /logout: none, one whose signature does not verify,
\* and a signed one for each session id.
Cookies(ids) ==
    {Cookie(FALSE, FALSE, NoSession), Cookie(TRUE, FALSE, 1)}
      \cup {Cookie(TRUE, TRUE, id) : id \in ids}

\* The requests to /logout: every cookie in a plain request, and an HTMX
\* request with no cookie and with each signed one.
LogoutRequests(ids) ==
    (Cookies(ids) \X {FALSE})
      \cup ({c \in Cookies(ids) : c.present => c.valid} \X {TRUE})

\* ann has a password, bob was invited and has none yet, cat is
\* soft-deleted; ann has a session about to expire and a newer one, cat one
\* that has not expired.
InitAuth ==
    /\ now = StartNow
    /\ tasks = {}
    /\ medication_administrations = {}
    /\ shifts = {}
    /\ lastOp = Op("start", NoSession, 0, NoWindows)
    /\ ops = 0
    /\ runs = Idle
    /\ probe = NoProbe
    /\ checker = CheckerAt(StartNow)
    /\ proc = Serving
    /\ workers = NoWorkers
    /\ config = NoConfig
    /\ timezone = [r \in {"r1"} |-> "UTC"]
    /\ task_templates = Empty
    /\ medications = Empty
    /\ medication_schedules = Empty
    /\ shift_templates = Empty
    /\ \E history \in AttemptHistories :
          auth = [NoAuth EXCEPT
             !.users =
                 [u \in {"u1", "u2", "u3"} |->
                     CASE u = "u1" -> UserRow("ann@x", "pw1", "h1", "admin")
                       [] u = "u2" -> UserRow("bob@x", NULL, "h1", "member")
                       [] u = "u3" -> [UserRow("cat@x", "pw1", "h2", "admin")
                                         EXCEPT !.deleted_at = StartNow - 60]],
             !.sessions = {SessionRow(1, "u1", "h1", StartNow + 1, StartNow - 5),
                           SessionRow(2, "u3", "h2", StartNow + sessionDuration - 120,
                                      StartNow - 120),
                           SessionRow(3, "u1", "h1", StartNow + sessionDuration - 5,
                                      StartNow - 5)},
             !.login_attempts = history,
             !.nextId = 4]

NextAuth ==
    \/ AuthMinute
    \/ \E form \in LoginForms : Login(form[1], form[2], form[3])
    \/ \E id \in SessionIds(auth.nextId) : ValidateSession(id)
    \/ \E id \in SessionIds(auth.nextId) : Logout(id)
    \/ \E request \in LogoutRequests(SessionIds(auth.nextId)) :
          HandleLogout(request[1], request[2])
    \/ \E id \in {"u1"} : SoftDeleteUser(id)

SpecAuth == InitAuth /\ [][NextAuth]_vars

(***************************************************************************)
(* Registration: Service.Register, registerFirstUser, registerViaInvite    *)
(* and createUser.  The pool holds one connection, so a transaction runs   *)
(* from BeginTx to Commit or Rollback with no other statement in between,  *)
(* while the statements Register issues before BeginTx interleave with     *)
(* those of other calls.                                                    *)
(***************************************************************************)

\* ulid.New(): the n-th identifier handed out for a household, a user.
NewHouseholdId(n) == <<"h1", "h2", "h3", "h4", "h5", "h6", "h7", "h8">>[n]

NewUserId(n) == <<"u1", "u2", "u3", "u4", "u5", "u6", "u7", "u8">>[n]

\* len(input.Password).
PasswordLength(password) ==
    CASE password = "" -> 0
      [] password = "short" -> 5
      [] OTHER -> 9

\* strings.TrimSpace on a display name or household name.
TrimSpace(name) == IF name = " " THEN "" ELSE name

RegisterInput(email, password, displayName, householdName, inviteToken) ==
    [Email |-> email, Password |-> password, DisplayName |-> displayName,
     HouseholdName |-> householdName, InviteToken |-> inviteToken]

\* A row of invites that nobody has accepted.
InviteRow(householdId, role, token, expiresAt) ==
    [household_id |-> householdId, role |-> role, token_hash |-> Hash(token),
     expires_at |-> expiresAt, accepted_at |-> NullInstant]

\* The ids of the invites with this token hash that are neither accepted nor
\* expired.
GetInviteByToken(invites, tokenHash, t) ==
    {i \in DOMAIN invites :
        /\ invites[i].token_hash = tokenHash
        /\ invites[i].accepted_at = NullInstant
        /\ invites[i].expires_at > t}

\* UPDATE invites SET accepted_at = now WHERE id = ?
AcceptInvite(invites, id, t) == [invites EXCEPT ![id].accepted_at = t]

\* Faulty variant: users.email_hash carries no UNIQUE constraint.
UniqueConstraintFailed_none(users, emailHash) == FALSE

\* users.email_hash is UNIQUE over every row, soft-deleted ones included.
UniqueConstraintFailed(users, emailHash) ==
    \E u \in DOMAIN users : users[u].email_hash = emailHash

\* INSERT INTO users.
CreateUser(users, id, row) ==
    [u \in DOMAIN users \cup {id} |-> IF u = id THEN row ELSE users[u]]

\* Faulty variant: every household shows every user.
ListUsersByHousehold_all(users, householdId) ==
    {u \in DOMAIN users : users[u].deleted_at = NullInstant}

ListUsersByHousehold(users, householdId) ==
    {u \in DOMAIN users :
        users[u].household_id = householdId /\ users[u].deleted_at = NullInstant}

\* Faulty variant: the statements of a failed transaction stay.
txRollback_kept(before, partial) == partial

\* defer tx.Rollback(): a transaction that returns before Commit leaves the
\* tables as they were at BeginTx.
txRollback(before, partial) == before

\* A Register call: where it stands, the step it last took, its input, the
\* invite it looked up and what it returned.
Call(pc, at, input, invite, type, message, session) ==
    [pc |-> pc, at |-> at, input |-> input, invite |-> invite, type |-> type,
     message |-> message, status |-> IF type = "OK" THEN 200 ELSE HTTPStatus(type),
     session |-> session]

NoCall == Call("idle", "none", RegisterInput("", "", "", "", ""), NULL, "OK", NULL, NoSession)

\* What a transaction leaves behind: the tables and the call's answer.
RegisterOutcome(tables, type, message, session) ==
    [tables |-> tables, type |-> type, message |-> message, session |-> session]

\* The validation at the head of Register: the first message it adds, or NULL.
RegisterValidation(input) ==
    CASE Normalize(input.Email) = "" -> "Email is required"
      [] PasswordLength(input.Password) < 8 -> "Password must be at least 8 characters"
      [] TrimSpace(input.DisplayName) = "" -> "Display name is required"
      [] input.InviteToken = "" /\ TrimSpace(input.HouseholdName) = "" ->
            "Household name is required"
      [] OTHER -> NULL

\* The steps of a registration transaction that can fail.
FirstUserSteps == {"BeginTx", "CreateHousehold", "CreateUser", "CreateSession", "Commit"}

InviteSteps == {"BeginTx", "CreateUser", "AcceptInvite", "CreateSession", "Commit"}

\* createUser: the users table after the INSERT, or the error.
createUser(a, input, householdId, role, fault) ==
    LET emailHash == Hash(Normalize(input.Email))
        id == NewUserId(a.nextId)
    IN  IF UniqueConstraintFailed(a.users, emailHash)
          THEN RegisterOutcome(a, "Conflict", "An account with this email already exists",
                         NoSession)
          ELSE IF fault = "CreateUser"
                 THEN RegisterOutcome(a, "Internal", "Failed to create user", NoSession)
                 ELSE RegisterOutcome([a EXCEPT !.users =
                                    CreateUser(@, id,
                                        UserRow(Normalize(input.Email), input.Password,
                                                householdId, role))],
                                "OK", NULL, NoSession)

\* createSessionTx and Commit, the tail of both transactions.
createSessionTx(before, a, householdId, t, fault) ==
    LET id == a.nextId
        done == [a EXCEPT !.sessions = @ \cup {SessionRow(id, NewUserId(id), householdId,
                                                          t + sessionDuration, t)},
                          !.nextId = @ + 1]
    IN  CASE fault = "CreateSession" ->
               RegisterOutcome(txRollback(before, a), "Internal", "Failed to create session",
                         NoSession)
          [] fault = "Commit" ->
               RegisterOutcome(txRollback(before, done), "Internal",
                         "Failed to commit registration", NoSession)
          [] OTHER -> RegisterOutcome(done, "OK", NULL, id)

registerFirstUser(a, input, t, fault) ==
    LET householdId == NewHouseholdId(a.nextId)
        withHousehold == [a EXCEPT !.households = @ \cup {householdId}]
        user == createUser(withHousehold, input, householdId, "admin", fault)
    IN  CASE fault = "BeginTx" ->
               RegisterOutcome(a, "Internal", "Failed to start transaction", NoSession)
          [] fault = "CreateHousehold" ->
               RegisterOutcome(txRollback(a, a), "Internal", "Failed to create household",
                         NoSession)
          [] user.type # "OK" ->
               RegisterOutcome(txRollback(a, withHousehold), user.type, user.message, NoSession)
          [] OTHER -> createSessionTx(a, user.tables, householdId, t, fault)

registerViaInvite(a, input, invite, t, fault) ==
    LET row == a.invites[invite]
        user == createUser(a, input, row.household_id, row.role, fault)
        accepted == [user.tables EXCEPT
                        !.invites = AcceptInvite(@, invite, t),
                        !.registered = @ \cup {<<invite, NewUserId(a.nextId)>>}]
    IN  CASE fault = "BeginTx" ->
               RegisterOutcome(a, "Internal", "Failed to start transaction", NoSession)
          [] user.type # "OK" ->
               RegisterOutcome(txRollback(a, a), user.type, user.message, NoSession)
          [] fault = "AcceptInvite" ->
               RegisterOutcome(txRollback(a, user.tables), "Internal", "Failed to accept invite",
                         NoSession)
          [] OTHER -> createSessionTx(a, accepted, row.household_id, t, fault)

RegisterStep(p, name, call, tables) ==
    /\ auth' = [tables EXCEPT !.calls[p] = call]
    /\ lastOp' = Op(name, p, 0, NoWindows)
    /\ UNCHANGED now
    /\ AuthUnchanged

\* Register is called: the input is normalised and validated.
RegisterBegin(p, input) ==
    /\ ops < MaxCalls
    /\ auth.calls[p].pc \in {"idle", "done"}
    /\ ops' = ops + 1
    /\ LET message == RegisterValidation(input)
       IN  RegisterStep(p, "Register",
               IF message # NULL
                 THEN Call("done", "Register", input, NULL, "Validation", message,
                           NoSession)
                 ELSE Call("GetUserByEmailHash", "Register", input, NULL, "OK", NULL,
                           NoSession),
               auth)

\* s.queries.GetUserByEmailHash, before any transaction.
RegisterCheckEmail(p) ==
    /\ auth.calls[p].pc = "GetUserByEmailHash"
    /\ UNCHANGED ops
    /\ LET input == auth.calls[p].input
       IN  RegisterStep(p, "GetUserByEmailHash",
               IF GetUserByEmailHash(auth.users, Hash(Normalize(input.Email))) # {}
                 THEN Call("done", "GetUserByEmailHash", input, NULL, "Conflict",
                           "An account with this email already exists", NoSession)
                 ELSE Call(IF input.InviteToken # "" THEN "GetInviteByToken"
                                                     ELSE "registerFirstUser",
                           "GetUserByEmailHash", input, NULL, "OK", NULL, NoSession),
               auth)

\* s.queries.GetInviteByToken, before the transaction of registerViaInvite.
RegisterLookupInvite(p) ==
    /\ auth.calls[p].pc = "GetInviteByToken"
    /\ UNCHANGED ops
    /\ LET input == auth.calls[p].input
           found == GetInviteByToken(auth.invites, Hash(input.InviteToken), now)
       IN  RegisterStep(p, "GetInviteByToken",
               IF found = {}
                 THEN Call("done", "GetInviteByToken", input, NULL, "Validation",
                           "Invalid or expired invite link", NoSession)
                 ELSE Call("registerViaInvite", "GetInviteByToken", input,
                           CHOOSE i \in found : TRUE, "OK", NULL, NoSession),
               auth)

\* The transaction of registerFirstUser or registerViaInvite, with the step
\* that fails, if one does.
RegisterTx(p, fault) ==
    /\ auth.calls[p].pc \in {"registerFirstUser", "registerViaInvite"}
    /\ fault \in IF auth.calls[p].pc = "registerFirstUser"
                   THEN FirstUserSteps \cup {"none"}
                   ELSE InviteSteps \cup {"none"}
    /\ UNCHANGED ops
    /\ LET call == auth.calls[p]
           out == IF call.pc = "registerFirstUser"
                    THEN registerFirstUser(auth, call.input, now, fault)
                    ELSE registerViaInvite(auth, call.input, call.invite, now, fault)
       IN  RegisterStep(p, call.pc,
                        Call("done", call.pc, call.input, call.invite, out.type,
                             out.message, out.session),
                        out.tables)

\* The goroutines that serve registration requests at the same time.
Callers == {1, 2}

RegisterInputs ==
    {RegisterInput(" Ann@X ", "password1", "Ann", "Home", ""),
     RegisterInput("eve@x", "password1", "Eve", "Home", ""),
     RegisterInput("eve@x", "password1", "Eve", "", "tok1"),
     RegisterInput("fay@x", "password1", "Fay", "", "tok1"),
     RegisterInput("fay@x", "password1", "Fay", "", "old"),
     RegisterInput("fay@x", "password1", "Fay", "", "bad"),
     RegisterInput("fay@x", "short", "Fay", "Home", ""),
     RegisterInput("fay@x", "password1", " ", "", "")}

RegisterLogins == {<<" Ann@X ", "password1", "ip1">>, <<"eve@x", "password1", "ip1">>}

\* One household whose admin registered first and sent two invites, one of
\* them expired by now.
InitRegister ==
    /\ now = StartNow
    /\ tasks = {}
    /\ medication_administrations = {}
    /\ shifts = {}
    /\ lastOp = Op("start", NoSession, 0, NoWindows)
    /\ ops = 0
    /\ runs = Idle
    /\ probe = NoProbe
    /\ checker = CheckerAt(StartNow)
    /\ proc = Serving
    /\ workers = NoWorkers
    /\ config = NoConfig
    /\ timezone = [r \in {"r1"} |-> "UTC"]
    /\ task_templates = Empty
    /\ medications = Empty
    /\ medication_schedules = Empty
    /\ shift_templates = Empty
    /\ auth = [NoAuth EXCEPT
          !.households = {NewHouseholdId(1)},
          !.users = [u \in {NewUserId(1)} |->
                        UserRow("ann@x", "password1", NewHouseholdId(1), "admin")],
          !.sessions = {SessionRow(1, NewUserId(1), NewHouseholdId(1),
                                   StartNow + sessionDuration - 5, StartNow - 5)},
          !.invites = [i \in {"i1", "i2"} |->
                          IF i = "i1"
                            THEN InviteRow(NewHouseholdId(1), "caregiver", "tok1",
                                           StartNow + 1)
                            ELSE InviteRow(NewHouseholdId(1), "member", "old",
                                           StartNow - 60)],
          !.calls = [p \in Callers |-> NoCall],
          !.nextId = 2]

NextRegister ==
    \/ AuthMinute
    \/ \E p \in Callers, input \in RegisterInputs : RegisterBegin(p, input)
    \/ \E p \in Callers : RegisterCheckEmail(p)
    \/ \E p \in Callers : RegisterLookupInvite(p)
    \/ \E p \in Callers, fault \in FirstUserSteps \cup InviteSteps \cup {"none"} :
          RegisterTx(p, fault)
    \/ \E form \in RegisterLogins : Login(form[1], form[2], form[3])
    \/ \E id \in {NewUserId(1)} : SoftDeleteUser(id)

SpecRegister == InitRegister /\ [][NextRegister]_vars

(***************************************************************************)
(* The CSRF middleware.  A token is nonce + "." + mac, the mac being the   *)
(* HMAC of the nonce under the middleware's key; any other string has no   *)
(* second part.                                                            *)
(***************************************************************************)

csrfKey == "k1"

computeCSRFHMAC(message, key) == <<"hmac-sha256", message, key>>

\* The string nonce + "." + mac, as strings.SplitN(token, ".", 2) sees it.
Dotted(nonce, mac) == [parts |-> 2, nonce |-> nonce, mac |-> mac]

\* A string without a dot; Undotted("") is the empty string.
Undotted(text) == [parts |-> 1, nonce |-> text, mac |-> <<>>]

newSignedToken(nonce, key) == Dotted(nonce, computeCSRFHMAC(nonce, key))

verifySignedToken(token, key) ==
    /\ token.parts = 2
    /\ token.mac = computeCSRFHMAC(token.nonce, key)

isSafeMethod(method) == method \in {"GET", "HEAD", "OPTIONS"}

\* r.Cookie(csrfCookieName): absent, or present with a value.
CSRFCookie(present, value) == [present |-> present, value |-> value]

CSRFRequest(method, cookie, header, form) ==
    [method |-> method, cookie |-> cookie, header |-> header, form |-> form]

\* What the middleware did: the status it wrote (200 stands for the wrapped
\* handler's own answer), how often it called the handler, the token it put
\* into the context and the cookie it set.
CSRFResponse(status, handler, token, setCookie) ==
    [status |-> status, handler |-> handler, token |-> token, setCookie |-> setCookie]

existingValidToken(request, key) ==
    IF ~request.cookie.present
      THEN Undotted("")
      ELSE IF ~verifySignedToken(request.cookie.value, key)
             THEN Undotted("")
             ELSE request.cookie.value

\* Faulty variant: the signature of the cookie is not verified.
validTokenPair_unsigned(cookieValue, headerValue, key) ==
    /\ headerValue # Undotted("")
    /\ cookieValue = headerValue

validTokenPair(cookieValue, headerValue, key) ==
    /\ headerValue # Undotted("")
    /\ cookieValue = headerValue
    /\ verifySignedToken(cookieValue, key)

\* The handler CSRF(key, secure)(next); nonce is what rand.Read yields.
CSRF(request, key, nonce) ==
    LET existing == existingValidToken(request, key)
        headerToken == IF request.header = Undotted("") THEN request.form
                                                        ELSE request.header
    IN  IF isSafeMethod(request.method)
          THEN IF existing = Undotted("")
                 THEN CSRFResponse(200, 1, newSignedToken(nonce, key),
                                   newSignedToken(nonce, key))
                 ELSE CSRFResponse(200, 1, existing, Undotted(""))
          ELSE IF ~request.cookie.present
                 THEN CSRFResponse(403, 0, Undotted(""), Undotted(""))
                 ELSE IF ~validTokenPair(request.cookie.value, headerToken, key)
                        THEN CSRFResponse(403, 0, Undotted(""), Undotted(""))
                        ELSE CSRFResponse(200, 1, request.cookie.value, Undotted(""))

Methods == {"GET", "HEAD", "OPTIONS", "POST", "PUT", "PATCH", "DELETE"}

\* The empty string, two tokens this middleware signed, a token signed with
\* another key, and a string without a dot.
TokenValues ==
    {Undotted(""), newSignedToken("n1", csrfKey), newSignedToken("n2", csrfKey),
     newSignedToken("n1", "k2"), Undotted("n1")}

Nonces == {"n3", "n4"}

CSRFProbe(state, request, response) ==
    [state |-> state, request |-> request, response |-> response]

InitCSRF ==
    /\ now = StartNow
    /\ tasks = {}
    /\ medication_administrations = {}
    /\ shifts = {}
    /\ lastOp = Op("start", NULL, 0, NoWindows)
    /\ ops = 0
    /\ runs = Idle
    /\ checker = CheckerAt(StartNow)
    /\ proc = Serving
    /\ workers = NoWorkers
    /\ auth = NoAuth
    /\ config = NoConfig
    /\ timezone = [r \in {"r1"} |-> "UTC"]
    /\ task_templates = Empty
    /\ medications = Empty
    /\ medication_schedules = Empty
    /\ shift_templates = Empty
    /\ \E method \in Methods, present \in BOOLEAN, value \in TokenValues,
          header \in TokenValues, form \in TokenValues :
          /\ ~present => value = Undotted("")
          /\ probe = CSRFProbe("received",
                               CSRFRequest(method, CSRFCookie(present, value),
                                           header, form),
                               CSRFResponse(0, 0, Undotted(""), Undotted("")))

\* The request passes through the middleware.
ServeCSRF(nonce) ==
    /\ probe.state = "received"
    /\ probe' = [probe EXCEPT !.state = "served",
                              !.response = CSRF(probe.request, csrfKey, nonce)]
    /\ UNCHANGED <<now, timezone, task_templates, medications, medication_schedules,
                   shift_templates, tasks, medication_administrations, shifts,
                   lastOp, ops, runs, checker, proc, workers, auth, config>>

NextCSRF == \E nonce \in Nonces : ServeCSRF(nonce)

SpecCSRF == InitCSRF /\ [][NextCSRF]_vars

(***************************************************************************)
(* The session middleware: LoadSession around RequireAuth or RequireRole   *)
(* around a handler.                                                       *)
(***************************************************************************)

\* What a middleware leaves for the next one: whether it called next, the
\* status and redirect target it wrote itself, and the user in the context.
Passed(user) == [next |-> 1, status |-> 200, redirect |-> NULL, user |-> user]

Refused(status, redirect) ==
    [next |-> 0, status |-> status, redirect |-> redirect, user |-> NULL]

\* RequireAuth(next) for a request whose context holds user (NULL: none).
RequireAuth(user, htmx) ==
    IF user # NULL
      THEN Passed(user)
      ELSE IF htmx THEN Refused(401, "/login") ELSE Refused(303, "/login")

\* Faulty variant: any authenticated user passes.
RequireRole_anyRole(roles, user, userRole, htmx) ==
    IF user = NULL
      THEN IF htmx THEN Refused(401, "/login") ELSE Refused(303, "/login")
      ELSE Passed(user)

\* RequireRole(roles...)(next).
RequireRole(roles, user, userRole, htmx) ==
    IF user = NULL
      THEN IF htmx THEN Refused(401, "/login") ELSE Refused(303, "/login")
      ELSE IF \E role \in roles : userRole = role
             THEN Passed(user)
             ELSE Refused(403, NULL)

\* Faulty variant: the cookie is left alone when ValidateSession fails.
LoadSession_keepsCookie(a, cookie, t) ==
    IF ~cookie.present
      THEN [tables |-> a, user |-> NULL, cookie |-> "kept"]
      ELSE IF ~cookie.valid
             THEN [tables |-> a, user |-> NULL, cookie |-> "cleared"]
             ELSE LET validated == validateSession(a, cookie.sessionID, t)
                  IN  [tables |-> validated,
                       user |-> IF validated.result.type = "OK"
                                  THEN validated.result.user ELSE NULL,
                       cookie |-> "kept"]

\* LoadSession(validator, secret, secure)(next) on the tables a: the tables
\* after ValidateSession, the user put into the context and what happened to
\* the cookie.  cookie.valid says whether VerifyAndExtractSessionID accepts
\* the cookie value.  Every path ends in one call of next.
LoadSession(a, cookie, t) ==
    IF ~cookie.present
      THEN [tables |-> a, user |-> NULL, cookie |-> "kept"]
      ELSE IF ~cookie.valid
             THEN [tables |-> a, user |-> NULL, cookie |-> "cleared"]
             ELSE LET validated == validateSession(a, cookie.sessionID, t)
                  IN  IF validated.result.type # "OK"
                        THEN [tables |-> validated, user |-> NULL, cookie |-> "cleared"]
                        ELSE [tables |-> validated, user |-> validated.result.user,
                              cookie |-> "kept"]

\* The routes of the application: open, behind RequireAuth, behind RequireRole.
Route(guard, roles) == [guard |-> guard, roles |-> roles]

Routes ==
    {Route("none", {}), Route("RequireAuth", {}), Route("RequireRole", {"admin"}),
     Route("RequireRole", {"member", "caregiver"})}

\* A request passes LoadSession and the guard of its route.
Serve(cookie, htmx, route) ==
    /\ ops < MaxCalls
    /\ LET loaded == LoadSession(auth, cookie, now)
           role == IF loaded.user = NULL THEN NULL ELSE auth.users[loaded.user].role
           guarded == CASE route.guard = "RequireAuth" -> RequireAuth(loaded.user, htmx)
                        [] route.guard = "RequireRole" ->
                              RequireRole(route.roles, loaded.user, role, htmx)
                        [] OTHER -> Passed(loaded.user)
       IN  auth' = [loaded.tables EXCEPT !.result =
                       [Result("serve", "OK", NULL, NoSession)
                          EXCEPT !.status = guarded.status,
                                 !.redirect = guarded.redirect,
                                 !.cookie = loaded.cookie,
                                 !.user = loaded.user,
                                 !.next = 1,
                                 !.handler = guarded.next,
                                 !.input = [NoInput EXCEPT
                                               !.cookie = cookie,
                                               !.htmx = htmx,
                                               !.user = loaded.user # NULL,
                                               !.guard = route.guard,
                                               !.roles = route.roles]]]
    /\ lastOp' = Op("serve", cookie.sessionID, 0, NoWindows)
    /\ ops' = ops + 1
    /\ UNCHANGED now
    /\ AuthUnchanged

NextSession ==
    \/ AuthMinute
    \/ \E cookie \in Cookies(SessionIds(auth.nextId)), htmx \in BOOLEAN,
          route \in Routes : Serve(cookie, htmx, route)
    \/ \E id \in SessionIds(auth.nextId) : Logout(id)
    \/ \E id \in {"u1"} : SoftDeleteUser(id)

SpecSession == InitAuth /\ [][NextSession]_vars

(***************************************************************************)
(* Deactivation against generation runs in flight.  A run holds the        *)
(* templates it read when it started; DeactivateTemplate, DeactivateSchedule*)
(* and DeactivateShiftTemplate run their two statements between the        *)
(* INSERT OR IGNORE statements of the runs.                                 *)
(***************************************************************************)
NextCleanupRace ==
    \/ Advance(MaxNow)
    \/ StartRun("scheduler", AllIds)
    \/ \E id \in AllIds : StartRun("ondemand", {id})
    \/ \E w \in Runners : InsertStep(w)
    \/ \E w \in Runners : FinishRun(w)
    \/ \E id \in AllIds : DeactivateTemplate(id)
    \/ \E id \in AllIds : DeactivateSchedule(id)
    \/ \E id \in AllIds : DeactivateShiftTemplate(id)

SpecCleanupRace == InitRace /\ [][NextCleanupRace]_vars

(***************************************************************************)
(* Process restarts on one database: run() from the migrations to the      *)
(* start of the HTTP server, with getOrCreateEncryptionSalt and            *)
(* verifyEncryptionKey.                                                     *)
(***************************************************************************)
configKeyEncryptionSalt == "encryption_salt"

configKeyEncryptionTest == "encryption_test_value"

encryptionTestPlaintext == "shelterkin-encryption-verify"

\* crypto.DeriveKey: Argon2id of the secret under the salt.
DeriveKey(masterSecret, salt) == <<"argon2id", masterSecret, salt>>

\* Encryptor.Encrypt: AES-GCM under the key with a random nonce.
Encrypt(key, nonce, plaintext) == [key |-> key, nonce |-> nonce, plaintext |-> plaintext]

\* Encryptor.Decrypt: the plaintext, or an error when the key is another one.
Decrypt(key, ciphertext) ==
    IF ciphertext.key = key
      THEN [err |-> FALSE, plaintext |-> ciphertext.plaintext]
      ELSE [err |-> TRUE, plaintext |-> ""]

\* base64.StdEncoding.
EncodeToString(bytes) == <<"base64", bytes>>

DecodeString(encoded) == encoded[2]

\* INSERT INTO config ... ON CONFLICT(key) DO UPDATE.
SetConfig(rows, key, value) ==
    [k \in DOMAIN rows \cup {key} |-> IF k = key THEN value ELSE rows[k]]

\* Faulty variant: a new salt is generated and stored on every start.
getOrCreateEncryptionSalt_always(rows, generated) ==
    [config |-> SetConfig(rows, configKeyEncryptionSalt, EncodeToString(generated)),
     salt |-> generated]

\* getOrCreateEncryptionSalt; generated is what crypto.GenerateSalt yields.
getOrCreateEncryptionSalt(rows, generated) ==
    IF configKeyEncryptionSalt \in DOMAIN rows
      THEN [config |-> rows, salt |-> DecodeString(rows[configKeyEncryptionSalt])]
      ELSE [config |-> SetConfig(rows, configKeyEncryptionSalt,
                                 EncodeToString(generated)),
            salt |-> generated]

\* verifyEncryptionKey with the encryptor of key.
verifyEncryptionKey(rows, key, nonce) ==
    IF configKeyEncryptionTest \notin DOMAIN rows
      THEN [config |-> SetConfig(rows, configKeyEncryptionTest,
                                 Encrypt(key, nonce, encryptionTestPlaintext)),
            err |-> NULL]
      ELSE LET decrypted == Decrypt(key, rows[configKeyEncryptionTest])
           IN  IF decrypted.err
                 THEN [config |-> rows,
                       err |-> "ENCRYPTION_SECRET appears to have changed"]
                 ELSE IF decrypted.plaintext # encryptionTestPlaintext
                        THEN [config |-> rows, err |-> "encryption verification failed"]
                        ELSE [config |-> rows, err |-> NULL]

\* The process: down, serving HTTP, or exited with the error run returned.
Process(phase, secret, salt, err) ==
    [phase |-> phase, secret |-> secret, salt |-> salt, err |-> err]

MaxStarts == 3

Secrets == {"secretA", "secretB", "secretC"}

Salts == {"salt1", "salt2", "salt3"}

GCMNonces == {"nonce1", "nonce2"}

\* run(): the salt, the key, the verification, then the server.
Run(secret, generated, nonce) ==
    /\ ops < MaxStarts
    /\ proc.phase # "serving"
    /\ LET salted == getOrCreateEncryptionSalt(config, generated)
           key == DeriveKey(secret, salted.salt)
           verified == verifyEncryptionKey(salted.config, key, nonce)
       IN  /\ config' = verified.config
           /\ proc' = IF verified.err # NULL
                        THEN Process("exited", secret, salted.salt, verified.err)
                        ELSE Process("serving", secret, salted.salt, NULL)
    /\ lastOp' = Op("run", NULL, 0, NoWindows)
    /\ ops' = ops + 1
    /\ UNCHANGED <<now, timezone, task_templates, medications, medication_schedules,
                   shift_templates, tasks, medication_administrations, shifts,
                   runs, probe, checker, workers, auth>>

\* SIGINT or SIGTERM: srv.Shutdown, and run returns.
Shutdown ==
    /\ proc.phase = "serving"
    /\ proc' = [proc EXCEPT !.phase = "down"]
    /\ lastOp' = Op("shutdown", NULL, 0, NoWindows)
    /\ UNCHANGED <<now, timezone, task_templates, medications, medication_schedules,
                   shift_templates, tasks, medication_administrations, shifts,
                   ops, runs, probe, checker, workers, auth, config>>

InitRestart ==
    /\ now = StartNow
    /\ tasks = {}
    /\ medication_administrations = {}
    /\ shifts = {}
    /\ lastOp = Op("start", NULL, 0, NoWindows)
    /\ ops = 0
    /\ runs = Idle
    /\ probe = NoProbe
    /\ checker = CheckerAt(StartNow)
    /\ proc = Process("down", NULL, NULL, NULL)
    /\ workers = NoWorkers
    /\ auth = NoAuth
    /\ config = NoConfig
    /\ timezone = [r \in {"r1"} |-> "UTC"]
    /\ task_templates = Empty
    /\ medications = Empty
    /\ medication_schedules = Empty
    /\ shift_templates = Empty

NextRestart ==
    \/ \E secret \in Secrets, generated \in Salts, nonce \in GCMNonces :
          Run(secret, generated, nonce)
    \/ Shutdown

SpecRestart == InitRestart /\ [][NextRestart]_vars

(***************************************************************************)
(* Properties.                                                             *)
(***************************************************************************)
\* The step is the operation of this name (an operation other than a
\* scheduler tick counts itself in ops; a tick leaves the clock alone).
IsStep(name) == lastOp'.op = name /\ ops' = ops + 1

IsTick == lastOp'.op = "generate" /\ now' = now /\ ops' = ops

LiveTasks(rows, id, at) ==
    {r \in rows : r.template_id = id /\ r.due_at = at /\ ~r.deleted}

LiveAdmins(rows, id, at) ==
    {r \in rows : r.schedule_id = id /\ r.scheduled_at = at /\ ~r.deleted}

LiveShifts(rows, id, at) ==
    {r \in rows : r.template_id = id /\ r.starts_at = at /\ ~r.deleted}

\* C1: a generation run that follows a generation run over the same windows,
\* with no operation in between, returns 0 and leaves tasks, medication
\* administrations and shifts exactly as the first run left them.
C1_Idempotent ==
    [][(/\ lastOp.op = "generate"
        /\ IsTick
        /\ lastOp'.win = lastOp.win)
       => /\ lastOp'.created = 0
          /\ tasks' = tasks
          /\ medication_administrations' = medication_administrations
          /\ shifts' = shifts]_vars

\* A second run has returned 0 over instances the first run created.
C1_Witness ==
    /\ lastOp.op = "generate"
    /\ lastOp.created = 0
    /\ \E r \in tasks \cup medication_administrations \cup shifts : ~r.deleted

\* C2: no two stored rows that are not soft-deleted share a non-null template
\* and a scheduled instant (for administrations: medication, schedule and
\* instant), for tasks, medication administrations and shifts alike.
C2_NoDuplicateKey ==
    /\ \A a, b \in tasks :
          (/\ a # b /\ ~a.deleted /\ ~b.deleted /\ a.template_id # NULL
           /\ a.template_id = b.template_id) => a.due_at # b.due_at
    /\ \A a, b \in medication_administrations :
          (/\ a # b /\ ~a.deleted /\ ~b.deleted /\ a.schedule_id # NULL
           /\ a.medication_id = b.medication_id
           /\ a.schedule_id = b.schedule_id) => a.scheduled_at # b.scheduled_at
    /\ \A a, b \in shifts :
          (/\ a # b /\ ~a.deleted /\ ~b.deleted /\ a.template_id # NULL
           /\ a.template_id = b.template_id) => a.starts_at # b.starts_at

\* A soft-deleted task and a live task of the same template and instant are
\* stored side by side.
C2_Witness ==
    \E a, b \in tasks :
        /\ a.deleted /\ ~b.deleted
        /\ a.template_id = b.template_id /\ a.due_at = b.due_at

RowsOfKey(k) ==
    CASE k.kind = "task" -> LiveTasks(tasks, k.id, k.at)
      [] k.kind = "admin" -> LiveAdmins(medication_administrations, k.id, k.at)
      [] k.kind = "shift" -> LiveShifts(shifts, k.id, k.at)

BothDone == \A w \in Runners : runs[w].pc = "done"

\* C3: when the scheduler run and an on-demand run have interleaved and both
\* have returned, neither has failed, every instance either attempted is stored
\* as exactly one live row, each instance both attempted was counted as created
\* by exactly one of them, and the counts add up to the rows stored.
C3_ConcurrentRuns ==
    BothDone =>
        /\ \A w \in Runners : ~runs[w].err
        /\ \A k \in runs["scheduler"].keys \cup runs["ondemand"].keys :
              Cardinality(RowsOfKey(k)) = 1
        /\ \A k \in runs["scheduler"].keys \cap runs["ondemand"].keys :
              (k \in runs["scheduler"].made) # (k \in runs["ondemand"].made)
        /\ runs["scheduler"].created + runs["ondemand"].created =
              Cardinality(tasks) + Cardinality(medication_administrations)
                  + Cardinality(shifts)

\* Both runs have returned after each won the race for one of two instances
\* that both attempted.
C3_Witness ==
    /\ BothDone
    /\ \E k1, k2 \in runs["scheduler"].keys \cap runs["ondemand"].keys :
          k1 \in runs["scheduler"].made /\ k2 \in runs["ondemand"].made

\* C4: a reconciliation after a schedule change leaves every task that is
\* completed, skipped, annotated or not in the future exactly as it was,
\* soft-deletes every live future pending unannotated task of the template,
\* and leaves a live task for every due occurrence of the new rule.
C4_ReconcilePreserves ==
    [][IsStep("reconcile") =>
         LET id == lastOp'.id
             tpl == task_templates'[id]
             tzName == timezone[tpl.care_recipient_id]
             today == LocalDate(tzName, now)
         IN  /\ \A r \in tasks :
                   (r.completed \/ r.skipped \/ r.notes \/ r.due_at <= now)
                       => r \in tasks'
             /\ \A r \in tasks :
                   (/\ r.template_id = id /\ r.due_at > now /\ ~r.deleted
                    /\ ~r.completed /\ ~r.skipped /\ ~r.notes)
                       => /\ r \notin tasks'
                          /\ [r EXCEPT !.deleted = TRUE] \in tasks'
             /\ \A d \in today .. today + generation_window_days - 1 :
                   \A tm \in tpl.rule.times :
                      LET at == resolveLocalTimeToUTC(d, tm, tzName)
                      IN  (MatchesDate(tpl.rule, d) /\ at > now)
                              => LiveTasks(tasks', id, at) # {}]_vars

\* A reconciliation has kept a completed or annotated future task of the
\* template and soft-deleted another one.
C4_Witness ==
    /\ lastOp.op = "reconcile"
    /\ \E r, d \in tasks :
          /\ r.template_id = lastOp.id /\ d.template_id = lastOp.id
          /\ (r.completed \/ r.notes) /\ ~r.deleted /\ r.due_at > now
          /\ d.deleted /\ d.due_at > now

\* C5 (as stated, for every kind of template): a reactivation keeps every
\* soft-deleted row and leaves exactly one live instance for every due
\* occurrence of the window.
C5_ReactivationFresh ==
    [][/\ IsStep("reactivate") =>
            LET id == lastOp'.id
                tpl == task_templates'[id]
                tzName == timezone[tpl.care_recipient_id]
            IN  /\ \A r \in tasks : r.deleted => r \in tasks'
                /\ \A at \in DueOccurrences(tpl.rule, tzName,
                                GetGenerationWindowForRecipient(tzName, now), now) :
                      Cardinality(LiveTasks(tasks', id, at)) = 1
       /\ IsStep("reactivateSchedule") =>
            LET id == lastOp'.id
                sched == medication_schedules'[id]
                tzName == timezone[RecipientOfSchedule(id)]
            IN  /\ \A r \in medication_administrations :
                      r.deleted => r \in medication_administrations'
                /\ \A at \in ScheduleOccurrences(sched, tzName,
                                GetGenerationWindowForRecipient(tzName, now)) :
                      shouldGenerateInstance(at, now)
                          => Cardinality(LiveAdmins(medication_administrations', id, at)) = 1
       /\ IsStep("reactivateShiftTemplate") =>
            LET id == lastOp'.id
                tpl == shift_templates'[id]
                tzName == timezone[tpl.care_recipient_id]
                today == LocalDate(tzName, now)
            IN  /\ \A r \in shifts : r.deleted => r \in shifts'
                /\ \A d \in today .. today + generation_window_days - 1 :
                      LET at == ShiftTimes(tpl, tzName, d).starts_at
                      IN  (MatchesDate(tpl.rule, d) /\ shouldGenerateInstance(at, now))
                              => Cardinality(LiveShifts(shifts', id, at)) = 1]_vars

\* A medication schedule has been reactivated and a future administration of
\* it, soft-deleted by the cleanup, has no live replacement.
C5_Witness ==
    /\ lastOp.op = "reactivateSchedule"
    /\ medication_schedules[lastOp.id].is_active
    /\ \E d \in medication_administrations :
          /\ d.schedule_id = lastOp.id /\ d.deleted /\ d.scheduled_at > now
          /\ LiveAdmins(medication_administrations, lastOp.id, d.scheduled_at) = {}

\* C5 for task templates alone: the reactivation of a task template keeps
\* every soft-deleted task and leaves exactly one live task per due occurrence.
C5_TaskReactivationFresh ==
    [][IsStep("reactivate") =>
            LET id == lastOp'.id
                tpl == task_templates'[id]
                tzName == timezone[tpl.care_recipient_id]
            IN  /\ \A r \in tasks : r.deleted => r \in tasks'
                /\ \A at \in DueOccurrences(tpl.rule, tzName,
                                GetGenerationWindowForRecipient(tzName, now), now) :
                      Cardinality(LiveTasks(tasks', id, at)) = 1]_vars

\* C10: the deactivation of one schedule of a medication leaves every
\* administration of the other schedules exactly as it was, and soft-deletes
\* the live future pending administrations of the deactivated schedule.
C10_SiblingSchedulesUntouched ==
    [][IsStep("deactivateSchedule") =>
         LET id == lastOp'.id
         IN  /\ \A r \in medication_administrations :
                   r.schedule_id # id => r \in medication_administrations'
             /\ \A r \in medication_administrations' :
                   r.schedule_id # id => r \in medication_administrations
             /\ \A r \in medication_administrations :
                   (/\ r.schedule_id = id /\ r.scheduled_at > now
                    /\ r.status = "pending" /\ ~r.deleted)
                       => [r EXCEPT !.deleted = TRUE] \in medication_administrations'
             /\ ~medication_schedules'[id].is_active
             /\ \A x \in DOMAIN medication_schedules :
                   x # id => medication_schedules'[x] = medication_schedules[x]]_vars

\* One schedule of a medication has been deactivated and its future
\* administrations soft-deleted while the sibling schedule of the same
\* medication keeps a live future pending administration.
C10_Witness ==
    /\ lastOp.op = "deactivateSchedule"
    /\ \E d, r \in medication_administrations :
          /\ d.schedule_id = lastOp.id /\ d.deleted
          /\ r.schedule_id # lastOp.id /\ r.medication_id = d.medication_id
          /\ ~r.deleted /\ r.status = "pending" /\ r.scheduled_at > now

\* The rows a step stores that were not stored before.
NewTasks == tasks' \ tasks

ProbeWall ==
    probe.date * MinutesPerDay + probe.timeOfDay[1] * MinutesPerHour
        + probe.timeOfDay[2]

\* The wall clock is shown by the zone at some instant (it is not skipped by
\* a spring-forward transition).
WallExists ==
    \E p \in ZonePeriods(probe.tzName) :
        p.start <= ProbeWall - p.offset /\ ProbeWall - p.offset < p.end

NewYorkAtEight ==
    /\ probe.state \in {"resolved", "shown"}
    /\ probe.tzName = "America/New_York"
    /\ probe.timeOfDay = <<8, 0>>

C11_CleanupExact ==
    [][/\ IsStep("deactivate") =>
            \A r \in tasks :
               IF /\ r.template_id = lastOp'.id /\ r.due_at > now /\ ~r.deleted
                  /\ ~r.completed /\ ~r.skipped /\ ~r.notes
               THEN [r EXCEPT !.deleted = TRUE] \in tasks' /\ r \notin tasks'
               ELSE r \in tasks'
       /\ IsStep("deactivateSchedule") =>
            \A r \in medication_administrations :
               IF /\ r.schedule_id = lastOp'.id /\ r.scheduled_at > now /\ ~r.deleted
                  /\ r.status = "pending" /\ ~r.notes
               THEN /\ [r EXCEPT !.deleted = TRUE] \in medication_administrations'
                    /\ r \notin medication_administrations'
               ELSE r \in medication_administrations'
       /\ IsStep("discontinue") =>
            \A r \in medication_administrations :
               IF /\ r.medication_id = lastOp'.id /\ r.scheduled_at > now /\ ~r.deleted
                  /\ r.status = "pending" /\ ~r.notes
               THEN /\ [r EXCEPT !.deleted = TRUE] \in medication_administrations'
                    /\ r \notin medication_administrations'
               ELSE r \in medication_administrations'
       /\ (IsStep("deactivate") \/ IsStep("deactivateSchedule") \/ IsStep("discontinue")) =>
            /\ Cardinality(tasks') = Cardinality(tasks)
            /\ Cardinality(medication_administrations') =
                  Cardinality(medication_administrations)]_vars

\* A task template has been deactivated and a future task of it that carries
\* a caregiver note is soft-deleted.
C11_Witness ==
    /\ lastOp.op = "deactivate"
    /\ \E r \in tasks :
          /\ r.template_id = lastOp.id /\ r.notes /\ r.deleted /\ r.due_at > now
          /\ ~r.completed /\ ~r.skipped

\* C11 without the notes: a cleanup leaves past, completed, skipped and given
\* instances and the instances of other templates as they were, and removes
\* no row.
C11_CleanupSparesFinished ==
    [][/\ IsStep("deactivate") =>
            /\ \A r \in tasks :
                  (r.template_id # lastOp'.id \/ r.due_at <= now
                      \/ r.completed \/ r.skipped) => r \in tasks'
            /\ Cardinality(tasks') = Cardinality(tasks)
       /\ (IsStep("deactivateSchedule") \/ IsStep("discontinue")) =>
            /\ \A r \in medication_administrations :
                  (r.scheduled_at <= now \/ r.status # "pending")
                      => r \in medication_administrations'
            /\ Cardinality(medication_administrations') =
                  Cardinality(medication_administrations)]_vars

\* The row of shifts' that was row s before the step.
ShiftAfter(s) == CHOOSE r \in shifts' : ShiftId(r) = ShiftId(s)

\* The shift is scheduled, not soft-deleted, and started more than the grace
\* period before minute t.
PastGrace(s, t) ==
    s.status = "scheduled" /\ ~s.deleted /\ t - s.starts_at > missedShiftGrace

\* C12: a pass of the status checker that reads the clock at now selects
\* exactly the shifts that are scheduled, not soft-deleted and started more
\* than 30 minutes before now; a shift becomes missed in a step if and only if
\* the step is the pass's update of that shift, the shift is still scheduled
\* (nobody clocked in), is not soft-deleted and started more than 30 minutes
\* before the pass; and when the pass ends no such shift is left scheduled.
C12_MissedAfterGrace ==
    [][/\ (~checker.inFlight /\ checker'.inFlight)
            => checker'.todo = {ShiftId(s) : s \in {x \in shifts : PastGrace(x, now)}}
       /\ \A s \in shifts :
            (s.status # "missed" /\ ShiftAfter(s).status = "missed")
                <=> /\ checker.inFlight
                    /\ lastOp'.op = "markMissed"
                    /\ ShiftId(s) \in checker.todo \ checker'.todo
                    /\ PastGrace(s, checker.passAt)
       /\ (checker.inFlight /\ ~checker'.inFlight)
            => \A s \in shifts' : ~PastGrace(s, checker.passAt)]_vars

\* A pass has ended that found a shift started 31 minutes before and marked it
\* missed, left a shift started 29 minutes before scheduled, and left a
\* soft-deleted shift started 31 minutes before scheduled.
C12_Witness ==
    /\ lastOp.op = "checkEnd"
    /\ \E s \in shifts, r \in shifts, d \in shifts :
          /\ s.status = "missed" /\ checker.passAt - s.starts_at = missedShiftGrace + 1
          /\ r.status = "scheduled" /\ ~r.deleted
          /\ checker.passAt - r.starts_at = missedShiftGrace - 1
          /\ d.status = "scheduled" /\ d.deleted
          /\ checker.passAt - d.starts_at = missedShiftGrace + 1

\* The changes of status a shift can go through.
ShiftTransitions ==
    {<<"scheduled", "active">>, <<"scheduled", "missed">>,
     <<"scheduled", "swapped">>, <<"active", "completed">>}

\* C13: every change of a shift's status is scheduled -> active, scheduled ->
\* missed, scheduled -> swapped or active -> completed; a missed shift keeps
\* its status; and the checker's update of a shift that a caregiver clocked in
\* to after the checker's query leaves the shift active.
C13_ShiftTransitions ==
    [][\A s \in shifts :
          /\ ShiftAfter(s).status # s.status
                => <<s.status, ShiftAfter(s).status>> \in ShiftTransitions
          /\ s.status = "missed" => ShiftAfter(s).status = "missed"
          /\ s.status = "active" => ShiftAfter(s).status # "missed"]_vars

\* The checker has just run its update on a shift it had selected as missed
\* and that a caregiver clocked in to in between: the shift is active.
C13_Witness ==
    /\ lastOp.op = "markMissed"
    /\ \E s \in shifts :
          /\ s.status = "active"
          /\ s.template_id = lastOp.id
          /\ Notification("missed_shift", ShiftId(s), checker.passAt, checker.passAt)
                \in checker.sent

\* The recipient's generation fails in a run that starts in this state.
Fails(recipientId) ==
    \/ ~ValidZone(timezone[recipientId])
    \/ \E f \in proc.failing : f[1] = recipientId

\* C14: in a generation run, a recipient whose generation fails (its zone
\* does not load, or an insert of its transaction fails) has exactly the same
\* tasks, medication administrations and shifts after the run as before it.
C14_AllOrNothing ==
    [][IsTick =>
         \A rcp \in RecipientIds :
            Fails(rcp) =>
               /\ {r \in tasks' : r.care_recipient_id = rcp}
                     = {r \in tasks : r.care_recipient_id = rcp}
               /\ {r \in medication_administrations' : r.care_recipient_id = rcp}
                     = {r \in medication_administrations : r.care_recipient_id = rcp}
               /\ {r \in shifts' : r.care_recipient_id = rcp}
                     = {r \in shifts : r.care_recipient_id = rcp}]_vars

\* A run has failed for r1 at its medication stage, after the stage of its
\* tasks: r1 has an active task template and no task, r2 has tasks.
C14_Witness ==
    /\ lastOp.op = "generate"
    /\ <<"r1", "medication_administrations">> \in proc.failing
    /\ \E e \in proc.errs : \E x \in e.errs :
          x.recipient = "r1" /\ x.err = "transaction"
    /\ task_templates["T1"].is_active
    /\ {r \in tasks : r.care_recipient_id = "r1"} = {}
    /\ {r \in tasks : r.care_recipient_id = "r2"} # {}

\* After the step the recipient has a live instance for every occurrence of
\* its active templates and schedules that is due in its window.
AllDueGenerated(rcp) ==
    LET tzName == timezone[rcp]
        window == Windows(timezone, now)[rcp]
    IN  /\ \A id \in DOMAIN task_templates :
              (task_templates[id].care_recipient_id = rcp /\ task_templates[id].is_active)
                 => \A at \in DueOccurrences(task_templates[id].rule, tzName, window, now) :
                       LiveTasks(tasks', id, at) # {}
        /\ \A id \in DOMAIN medication_schedules :
              (/\ medications[medication_schedules[id].medication_id].care_recipient_id = rcp
               /\ medication_schedules[id].is_active)
                 => \A at \in ScheduleOccurrences(medication_schedules[id], tzName, window) :
                       shouldGenerateInstance(at, now)
                          => LiveAdmins(medication_administrations', id, at) # {}

\* The recipients named in the errors a run returned.
ReportedRecipients(errs) == UNION {{x.recipient : x \in e.errs} : e \in errs}

\* The rows the step added.
AddedRows ==
    [tasks |-> tasks' \ tasks,
     medication_administrations |-> medication_administrations' \ medication_administrations,
     shifts |-> shifts' \ shifts]

\* C15 as stated: in a generation run a failing recipient does not keep any
\* other recipient, of its household or of another, from getting all its due
\* instances; the errors the run returns name the failing recipients; and the
\* count the run returns is the number of instances the run created.
C15_CountCreated ==
    [][IsTick =>
         /\ \A rcp \in RecipientIds : ~Fails(rcp) => AllDueGenerated(rcp)
         /\ ReportedRecipients(proc'.errs) = {rcp \in RecipientIds : Fails(rcp)}
         /\ lastOp'.created = RowCount(AddedRows)]_vars

\* What holds of a run with failing recipients: every other recipient gets
\* all its due instances, the errors returned name the failing recipients,
\* and the count returned is the number of instances created in households
\* none of whose recipients failed.
C15_OthersGenerated ==
    [][IsTick =>
         /\ \A rcp \in RecipientIds : ~Fails(rcp) => AllDueGenerated(rcp)
         /\ ReportedRecipients(proc'.errs) = {rcp \in RecipientIds : Fails(rcp)}
         /\ lastOp'.created =
               LET clean(r) == \A rcp \in RecipientIds :
                                  HouseholdOf(rcp) = HouseholdOf(r.care_recipient_id)
                                     => ~Fails(rcp)
               IN  RowCount([tasks |-> {r \in AddedRows.tasks : clean(r)},
                             medication_administrations |->
                                {r \in AddedRows.medication_administrations : clean(r)},
                             shifts |-> {r \in AddedRows.shifts : clean(r)}])]_vars

\* A run has failed for r1, whose zone does not load; r2 of the same household
\* and r3 of the other household have their tasks; the count the run returned
\* is smaller than the number of tasks stored.
C15_Witness ==
    /\ lastOp.op = "generate"
    /\ ~ValidZone(timezone["r1"])
    /\ ReportedRecipients(proc.errs) = {"r1"}
    /\ {r \in tasks : r.care_recipient_id = "r2"} # {}
    /\ {r \in tasks : r.care_recipient_id = "r3"} # {}
    /\ lastOp.created < Cardinality(tasks)

OverdueSent(sent) ==
    {n \in sent : n.kind \in {"overdue_task", "overdue_medication"}}

\* C17: a task or medication administration is reported overdue by at most
\* one pass of the status checker; the pass that reports it is the one whose
\* interval (last check, now] holds its scheduled instant, and that pass
\* reports every pending item scheduled in its interval.
C17_OverdueOnce ==
    [][/\ \A n1 \in OverdueSent(checker'.sent), n2 \in OverdueSent(checker'.sent) :
             (n1.kind = n2.kind /\ n1.item = n2.item) => n1 = n2
       /\ \A n \in OverdueSent(checker'.sent) : n.after < n.item[2] /\ n.item[2] <= n.at
       /\ lastOp'.op = "checkBegin" /\ checker'.passes = checker.passes + 1
            => /\ \A r \in tasks :
                    (~r.completed /\ ~r.skipped
                        /\ checker.lastCheck < r.due_at /\ r.due_at <= now)
                       => Notification("overdue_task", <<r.template_id, r.due_at, r.nth>>,
                                       checker.lastCheck, now) \in checker'.sent
               /\ \A r \in medication_administrations :
                    (r.status = "pending"
                        /\ checker.lastCheck < r.scheduled_at /\ r.scheduled_at <= now)
                       => Notification("overdue_medication",
                                       <<r.schedule_id, r.scheduled_at, r.nth>>,
                                       checker.lastCheck, now) \in checker'.sent]_vars

\* A task reported overdue by one pass is still pending when a later pass has
\* run, and that pass reported a medication administration that had fallen
\* due in between.
C17_Witness ==
    /\ checker.passes = 2
    /\ \E n \in checker.sent, k \in checker.sent :
          /\ n.kind = "overdue_task" /\ n.at < checker.passAt
          /\ \E r \in tasks : /\ <<r.template_id, r.due_at, r.nth>> = n.item
                                /\ ~r.completed /\ ~r.skipped
          /\ k.kind = "overdue_medication" /\ k.at = checker.passAt /\ k.after = n.at

\* The handoff prompts sent for a shift.
PromptsFor(sent, id) == {n \in sent : n.kind = "handoff_prompt" /\ n.item = id}

\* The shift is active, has no handoff record, and ends within the look-ahead
\* of a pass that reads the clock at minute t.
NeedsHandoffPrompt(s, t) ==
    /\ s.status = "active"
    /\ ShiftId(s) \notin checker.handoffs
    /\ s.ends_at > t /\ s.ends_at <= t + handoffPromptLead

\* C18: over all passes of the status checker a shift gets at most one
\* handoff prompt; a pass that finds an active shift without handoff record
\* ending within the next 30 minutes sends the prompt when none was sent
\* before and sends nothing for it otherwise; and a pass sends a prompt for no
\* other shift.
C18_OneHandoffPrompt ==
    [][/\ \A s \in shifts : Cardinality(PromptsFor(checker'.sent, ShiftId(s))) <= 1
       /\ lastOp'.op = "checkBegin" /\ checker'.passes = checker.passes + 1
            => \A s \in shifts :
                  /\ NeedsHandoffPrompt(s, now)
                        => Cardinality(PromptsFor(checker'.sent, ShiftId(s))) = 1
                  /\ PromptsFor(checker.sent, ShiftId(s)) # {}
                        => PromptsFor(checker'.sent, ShiftId(s))
                              = PromptsFor(checker.sent, ShiftId(s))
                  /\ ~NeedsHandoffPrompt(s, now)
                        => PromptsFor(checker'.sent, ShiftId(s))
                              = PromptsFor(checker.sent, ShiftId(s))]_vars

\* Two passes have seen the same active shift inside the look-ahead, without
\* handoff record; the only prompt for it is the one of the earlier pass.
C18_Witness ==
    /\ checker.passes = 2
    /\ \E s \in shifts :
          /\ NeedsHandoffPrompt(s, checker.passAt)
          /\ \E n \in PromptsFor(checker.sent, ShiftId(s)) :
                /\ n.at < checker.passAt
                /\ s.ends_at <= n.at + handoffPromptLead
                /\ PromptsFor(checker.sent, ShiftId(s)) = {n}

\* The dates an instance stored in the model can be for.
AnyDate == [Start |-> 0 - 2, End |-> 8]

\* C19: after UpdateTimezone with its reconciliation, every task, medication
\* administration and shift of the recipient that is not soft-deleted, lies in
\* the future, is pending and carries no note has the UTC instant of its
\* rule's time of day on a matching date in the new zone; and every task that
\* was completed, skipped or annotated, every administration that was given or
\* annotated, and every shift that was no longer scheduled or was annotated is
\* the same row after the step as before it.
C19_TimezoneReconciled ==
    [][IsStep("timezone") =>
         LET rcp == lastOp'.id
             z == timezone'[rcp]
         IN  /\ \A r \in tasks' :
                    (/\ r.care_recipient_id = rcp /\ ~r.deleted /\ r.due_at > now
                     /\ ~r.completed /\ ~r.skipped /\ ~r.notes)
                       => r.due_at \in Occurrences(task_templates[r.template_id].rule,
                                                   z, AnyDate)
             /\ \A r \in medication_administrations' :
                    (/\ r.care_recipient_id = rcp /\ ~r.deleted /\ r.scheduled_at > now
                     /\ r.status = "pending" /\ ~r.notes)
                       => r.scheduled_at \in
                             ScheduleOccurrences(medication_schedules[r.schedule_id],
                                                 z, AnyDate)
             /\ \A r \in shifts' :
                    (/\ r.care_recipient_id = rcp /\ ~r.deleted /\ r.starts_at > now
                     /\ r.status = "scheduled" /\ ~r.notes)
                       => \E d \in DatesIn(AnyDate) :
                             /\ MatchesDate(shift_templates[r.template_id].rule, d)
                             /\ r.starts_at =
                                   ShiftTimes(shift_templates[r.template_id], z, d).starts_at
             /\ \A r \in tasks :
                    (r.completed \/ r.skipped \/ r.notes) => r \in tasks'
             /\ \A r \in medication_administrations :
                    (r.status # "pending" \/ r.notes) => r \in medication_administrations'
             /\ \A r \in shifts :
                    (r.status # "scheduled" \/ r.notes) => r \in shifts']_vars

\* The zone of the recipient has just been changed: a future task that carries
\* a note still has its instant of the old zone and is not soft-deleted, and a
\* future pending task of the same template has the instant of the new zone.
C19_Witness ==
    /\ lastOp.op = "timezone"
    /\ \E kept \in tasks, fresh \in tasks :
          /\ kept.notes /\ ~kept.deleted /\ kept.due_at > now
          /\ kept.due_at \notin Occurrences(task_templates[kept.template_id].rule,
                                            timezone[lastOp.id], AnyDate)
          /\ fresh.template_id = kept.template_id
          /\ ~fresh.deleted /\ ~fresh.notes /\ ~fresh.completed /\ ~fresh.skipped
          /\ fresh.due_at > now
          /\ fresh.due_at \in Occurrences(task_templates[fresh.template_id].rule,
                                          timezone[lastOp.id], AnyDate)

\* C20 as stated: whenever the HTTP server accepts requests, the startup
\* generation has run to completion.
C20_GenerationBeforeServing ==
    proc.phase = "serving" => proc.generated

\* What holds: in a process started through main of the startup sequence the
\* HTTP server accepts requests only after the startup generation.
C20_MainGeneratesFirst ==
    (proc.entry = "main" /\ proc.phase = "serving") => proc.generated

\* The process started through run has answered a request; the household has
\* an active task template, and no generation has run: there is no task.
C20_Witness ==
    /\ proc.entry = "run"
    /\ proc.requests > 0
    /\ ~proc.generated
    /\ \E id \in DOMAIN task_templates : task_templates[id].is_active
    /\ tasks = {}
\* A tick of worker w begins on this step.
TickBegins(w) ==
    /\ workers.loops[w].pc # "tick"
    /\ workers'.loops[w].pc = "tick"

\* The tick of worker w that is in flight is still in flight after the step,
\* or it has come to its own end on this step.
TickNotCut(w) ==
    workers.loops[w].pc = "tick" =>
        \/ workers'.loops[w].pc = "tick"
        \/ /\ workers'.loops[w].pc = "select"
           /\ lastOp'.op = "tickEnd"
           /\ lastOp'.id = w

AllStopped == \A w \in DOMAIN workers.loops : workers.loops[w].pc = "stopped"

\* C21, as stated: once the context is cancelled no loop begins a new tick,
\* a tick in flight runs to its end, and every loop terminates in the end.
C21_NoTickAfterCancel ==
    /\ [][\A w \in DOMAIN workers.loops :
            /\ workers.cancelled => ~TickBegins(w)
            /\ TickNotCut(w)]_vars
    /\ (workers.cancelled ~> AllStopped)

\* C21, the part that holds: a tick in flight is never cut short, by the
\* cancellation or by anything else; after the cancellation a tick begins only
\* in a loop that comes back to its select and finds a tick waiting in the
\* ticker's channel; a loop blocked in its select at the cancellation begins
\* no tick any more; and every loop terminates in the end.
C21_InFlightFinishesLoopsStop ==
    /\ [][\A w \in DOMAIN workers.loops :
            /\ TickNotCut(w)
            /\ (workers.cancelled /\ TickBegins(w)) =>
                  (workers.loops[w].pc = "select" /\ workers.loops[w].pending)
            /\ (~workers.cancelled /\ workers'.cancelled
                   /\ workers.loops[w].pc = "blocked") =>
                  workers'.loops[w].pc = "done"
            /\ workers.loops[w].pc \in {"done", "stopped"} =>
                  workers'.loops[w].pc \in {"done", "stopped"}]_vars
    /\ (workers.cancelled ~> AllStopped)

\* The context was cancelled while a tick was in flight, the tick has come to
\* its end since, and another loop has returned.
C21_Witness ==
    /\ workers.cancelled
    /\ lastOp.op = "tickEnd"
    /\ \E w \in DOMAIN workers.loops : workers.loops[w].pc = "stopped"

\* The delays safeGo can wait: 1 second doubled up to 256, then the cap.
BackoffDelays == {1, 2, 4, 8, 16, 32, 64, 128, 256, maxBackoff}

SameInstance(rows, r) ==
    {x \in rows : /\ x.template_id = r.template_id
                  /\ x.due_at = r.due_at
                  /\ x.nth = r.nth}

\* C23, as stated: an edit of a template's content alone soft-deletes no
\* instance and changes no instance, so that every instance keeps the content
\* copied when it was generated.
C23_ContentEditFrame ==
    [][IsStep("contentEdit") => tasks' = tasks]_vars

\* C23, the part that holds: no step changes the content copied into an
\* instance; a content edit leaves every instance that is completed,
\* annotated, or not in the future exactly as it was; and every instance a
\* step creates carries the content its template has after the step.
C23_SnapshotKept ==
    [][/\ \A r \in tasks : \E x \in SameInstance(tasks', r) : x.title = r.title
       /\ IsStep("contentEdit") =>
             \A r \in tasks :
                (r.completed \/ r.notes \/ r.due_at <= now) => r \in tasks'
       /\ \A x \in tasks' :
             SameInstance(tasks, x) = {} =>
                x.title = task_templates'[x.template_id].title]_vars

\* The template has been given the content v2 after a task was generated and
\* completed: the completed task still reads v1, and a task generated since
\* reads v2.
C23_Witness ==
    /\ lastOp.op = "contentEdit"
    /\ \E r \in tasks : r.completed /\ ~r.deleted /\ r.title = "v1"
    /\ \E r \in tasks : ~r.deleted /\ r.title = "v2"

\* The administrations of rows that are the same insert as r.
SameAdmin(rows, r) ==
    {x \in rows : /\ x.medication_id = r.medication_id
                  /\ x.schedule_id = r.schedule_id
                  /\ x.scheduled_at = r.scheduled_at
                  /\ x.nth = r.nth}

AdminsCreated == {r \in medication_administrations' :
                     SameAdmin(medication_administrations, r) = {}}

\* C24: an administration created by a step other than a caregiver's log
\* belongs to a medication that is neither as-needed nor discontinued and to
\* a schedule that is active; the administrations of an as-needed medication
\* are all logged ones (no schedule, no scheduled time).
C24_NoGenerationForPRN ==
    /\ [][\A r \in AdminsCreated :
            \/ /\ lastOp'.op = "logAdministration"
               /\ r.schedule_id = NULL
            \/ /\ ~medications'[r.medication_id].is_prn
               /\ ~medications'[r.medication_id].discontinued
               /\ r.schedule_id \in DOMAIN medication_schedules'
               /\ medication_schedules'[r.schedule_id].is_active
               /\ medication_schedules'[r.schedule_id].medication_id = r.medication_id]_vars
    /\ [](\A r \in medication_administrations :
            medications[r.medication_id].is_prn => r.schedule_id = NULL)

\* A generation run has just created administrations while the as-needed
\* medication had an active schedule and an administration logged by a
\* caregiver.
C24_Witness ==
    /\ lastOp.op = "generate"
    /\ lastOp.created > 0
    /\ medication_schedules["S2"].is_active
    /\ \E r \in medication_administrations :
          r.medication_id = "M2" /\ r.schedule_id = NULL

\* The weekday of a date of 2026 from its month and day of month alone
\* (0 is a Sunday), by the table method for the Gregorian calendar.
MonthKey == <<0, 3, 2, 5, 0, 3, 5, 1, 4, 6, 2, 4>>

WeekdayOf(month, day) ==
    LET y == IF month < 3 THEN 2025 ELSE 2026
    IN  (y + (y \div 4) - (y \div 100) + (y \div 400) + MonthKey[month] + day) % 7

\* C25: the matcher answers true for daily; for weekly, true exactly when
\* the day set is empty or holds the weekday of the date; for monthly, true
\* exactly when the day of the month of the date is the configured day, so
\* that day 31 matches in no month that has fewer days; false for every
\* other frequency.
C25_MatcherContract ==
    probe.state = "matched" =>
        LET r == probe.rule
            expected ==
                CASE r.frequency = "daily" -> TRUE
                  [] r.frequency = "weekly" ->
                        \/ r.days_of_week = {}
                        \/ WeekdayNames[WeekdayOf(probe.month, probe.day) + 1]
                              \in r.days_of_week
                  [] r.frequency = "monthly" -> probe.day = r.day_of_month
                  [] OTHER -> FALSE
        IN  /\ probe.result = expected
            /\ (r.frequency = "monthly" /\ r.day_of_month > DaysInMonth[probe.month])
                  => probe.result = FALSE

\* The matcher has answered for a monthly rule on day 31 and the last day
\* of April.
C25_Witness ==
    /\ probe.state = "matched"
    /\ probe.rule.frequency = "monthly"
    /\ probe.rule.day_of_month = 31
    /\ probe.month = 4
    /\ probe.day = 30
    /\ probe.result = FALSE

Unread(n) == n.read_at = NullInstant /\ n.dismissed_at = NullInstant

\* C26: a housekeeping pass keeps every unread notification whatever its
\* age, every session whose expiry is in the future and every login attempt
\* no older than seven days, and keeps the read or dismissed notifications
\* no older than ninety days; it deletes the sessions whose expiry has
\* passed, the login attempts older than seven days and the read or
\* dismissed notifications older than ninety days.
C26_HousekeepingPrunes ==
    [][IsStep("housekeeping") =>
        /\ \A n \in auth.notifications :
              /\ Unread(n) => n \in auth'.notifications
              /\ n.created_at >= now - notificationRetention
                    => n \in auth'.notifications
              /\ (~Unread(n) /\ n.created_at < now - notificationRetention)
                    => n \notin auth'.notifications
        /\ \A s \in auth.sessions :
              /\ s.expires_at > now => s \in auth'.sessions
              /\ s.expires_at < now => s \notin auth'.sessions
        /\ \A a \in auth.login_attempts :
              /\ a.attempted_at >= now - loginAttemptRetention
                    => a \in auth'.login_attempts
              /\ a.attempted_at < now - loginAttemptRetention
                    => a \notin auth'.login_attempts
        /\ auth'.sessions \subseteq auth.sessions
        /\ auth'.login_attempts \subseteq auth.login_attempts
        /\ auth'.notifications \subseteq auth.notifications]_vars

\* A pass has just deleted rows of all three tables, and left an unread
\* notification older than ninety days, a session that has not expired and
\* a login attempt of the last seven days.
C26_Witness ==
    /\ lastOp.op = "housekeeping"
    /\ lastOp.created >= 3
    /\ Cardinality(auth.sessions) < 4
    /\ Cardinality(auth.login_attempts) < 4
    /\ Cardinality(auth.notifications) < 3
    /\ \E n \in auth.notifications :
          Unread(n) /\ n.created_at < now - notificationRetention
    /\ \E s \in auth.sessions : s.expires_at > now
    /\ \E a \in auth.login_attempts : a.attempted_at >= now - loginAttemptRetention

\* The failed attempts of the last fifteen minutes for the address of a
\* login, and from its IP address.
RecentFailures ==
    {a \in auth.login_attempts : ~a.succeeded /\ now - a.attempted_at < 15}

FailedForEmail(email) ==
    {a \in RecentFailures : a.email_hash = Hash(Normalize(email))}

FailedFromIP(ip) == {a \in RecentFailures : a.ip_address = ip}

LoginInput == auth'.result.input

\* C27: a login with an email and a password is answered RateLimited (429,
\* Retry-After 900) exactly when five or more failed attempts for its
\* address, or twenty or more from its IP address, were recorded in the last
\* fifteen minutes; then the password is not compared, no attempt is
\* recorded and no session is created.
C27_RateLimitExact ==
    [][(IsStep("login") /\ Normalize(LoginInput.email) # "" /\ LoginInput.password # "")
        => LET over == \/ Cardinality(FailedForEmail(LoginInput.email)) >= 5
                       \/ Cardinality(FailedFromIP(LoginInput.ip)) >= 20
           IN  /\ (auth'.result.type = "RateLimited") <=> over
               /\ over => /\ auth'.result.status = 429
                          /\ auth'.result.retryAfter = 900
                          /\ ~auth'.result.passwordChecked
                          /\ auth'.result.session = NoSession
                          /\ auth'.sessions = auth.sessions
                          /\ auth'.login_attempts = auth.login_attempts]_vars

\* ann's login with her right password from an address nothing was
\* recorded for is answered RateLimited, with a successful login of hers on
\* record.
C27_Witness ==
    /\ auth.result.call = "login"
    /\ auth.result.type = "RateLimited"
    /\ Normalize(auth.result.input.email) = "ann@x"
    /\ auth.result.input.password = "pw1"
    /\ \A a \in auth.login_attempts : a.ip_address # auth.result.input.ip
    /\ \E a \in auth.login_attempts : a.succeeded /\ a.email_hash = Hash("ann@x")

ValidatedRows == {s \in auth.sessions : s.id = lastOp'.id}

UserDeleted(s) == auth.users[s.user_id].deleted_at # NullInstant

\* C28: ValidateSession returns a user exactly when a session row with the
\* id exists, expires after now and belongs to a user who is not
\* soft-deleted; otherwise it returns Unauthorized; the row of an unexpired
\* session of a soft-deleted user is deleted by the call.
C28_ValidateSession ==
    [][IsStep("validateSession") =>
        LET live == {s \in ValidatedRows : s.expires_at > now /\ ~UserDeleted(s)}
        IN  /\ (auth'.result.type = "OK") <=> (live # {})
            /\ \A s \in live : auth'.result.user = s.user_id
                                  /\ auth'.result.session = s.id
            /\ live = {} => /\ auth'.result.type = "Unauthorized"
                            /\ auth'.result.user = NULL
            /\ \A s \in ValidatedRows :
                  (s.expires_at > now /\ UserDeleted(s)) => s \notin auth'.sessions]_vars

\* As the claim has it: the row of any session of a soft-deleted user is
\* deleted by the call.
C28_DeletedUserRowGone ==
    [][IsStep("validateSession") =>
        \A s \in ValidatedRows : UserDeleted(s) => s \notin auth'.sessions]_vars

\* The session of the soft-deleted user has been validated: Unauthorized,
\* and the row is gone.
C28_Witness ==
    /\ auth.result.call = "validateSession"
    /\ auth.result.type = "Unauthorized"
    /\ auth.result.message = "Account deactivated"
    /\ \A s \in auth.sessions : s.id # auth.result.input.sessionID

\* C29: no session row has an id Logout was called with, ValidateSession of
\* such an id is answered Unauthorized, and the logout handler clears the
\* cookie and redirects to /login for every request.
C29_LoggedOutStaysOut ==
    /\ [](\A s \in auth.sessions : s.id \notin auth.loggedOut)
    /\ [][(IsStep("validateSession") /\ lastOp'.id \in auth.loggedOut)
            => auth'.result.type = "Unauthorized"]_vars
    /\ [][IsStep("handleLogout")
            => /\ auth'.result.cookie = "cleared"
               /\ auth'.result.redirect = "/login"
               /\ (LoginInput.user => LoginInput.cookie.sessionID \in auth'.loggedOut)]_vars

\* ann's newer session, thirty days from its expiry, was logged out and
\* then validated; ann is not soft-deleted.
C29_Witness ==
    /\ auth.result.call = "validateSession"
    /\ auth.result.type = "Unauthorized"
    /\ auth.result.input.sessionID \in auth.loggedOut
    /\ auth.result.input.sessionID = 3
    /\ auth.users["u1"].deleted_at = NullInstant

UsersWith(email) == {u \in DOMAIN auth.users : auth.users[u].email_hash = Hash(Normalize(email))}

\* The credentials of a login are bad: no user has the address, or the user
\* is soft-deleted, has no password hash, or has another password.
BadCredentials(email, password) ==
    \/ UsersWith(email) = {}
    \/ \E u \in UsersWith(email) :
          \/ auth.users[u].deleted_at # NullInstant
          \/ ~auth.users[u].password_hash.Valid
          \/ auth.users[u].password_hash.String # GenerateFromPassword(password)

\* C30: a login that is not rate-limited and has bad credentials, of any of
\* the four kinds, is answered Unauthorized 'Invalid email or password'
\* with no session and no cookie, and records one failed attempt.
C30_UniformFailure ==
    [][(/\ IsStep("login")
        /\ auth'.result.type \notin {"Validation", "RateLimited"}
        /\ BadCredentials(LoginInput.email, LoginInput.password))
        => /\ auth'.result.type = "Unauthorized"
           /\ auth'.result.message = "Invalid email or password"
           /\ auth'.result.status = 401
           /\ auth'.result.session = NoSession
           /\ auth'.result.user = NULL
           /\ auth'.result.cookie = "kept"
           /\ auth'.result.retryAfter = 0
           /\ auth'.sessions = auth.sessions
           /\ auth.login_attempts \subseteq auth'.login_attempts
           /\ \E a \in auth'.login_attempts \ auth.login_attempts :
                 /\ auth'.login_attempts \ auth.login_attempts = {a}
                 /\ ~a.succeeded
                 /\ a.email_hash = Hash(Normalize(LoginInput.email))
                 /\ a.ip_address = LoginInput.ip]_vars

\* The soft-deleted user has logged in with her right password and was
\* answered like an unknown address.
C30_Witness ==
    /\ auth.result.call = "login"
    /\ auth.result.type = "Unauthorized"
    /\ auth.result.input.email = "cat@x"
    /\ auth.result.input.password = "pw1"
    /\ ~auth.result.passwordChecked

AttemptsAdded == auth'.login_attempts \ auth.login_attempts

SessionsAdded == auth'.sessions \ auth.sessions

\* The credentials of a login are those of a user who is not soft-deleted.
GoodCredentials(email, password) ==
    \E u \in UsersWith(email) :
        /\ auth.users[u].deleted_at = NullInstant
        /\ auth.users[u].password_hash.Valid
        /\ auth.users[u].password_hash.String = GenerateFromPassword(password)

\* C39: a login turned away by validation or by the rate limiter adds no
\* login attempt and no session, so the counts of the rate limiter are as
\* before; every other login adds exactly one attempt, succeeded exactly
\* when the credentials are valid, and a session is added only together
\* with a succeeded attempt.  No step removes or rewrites an attempt or
\* adds a session without a login.
C39_LoginFrame ==
    [][IsStep("login") =>
        /\ auth.login_attempts \subseteq auth'.login_attempts
        /\ auth.sessions \subseteq auth'.sessions
        /\ IF auth'.result.type \in {"Validation", "RateLimited"}
             THEN /\ AttemptsAdded = {}
                  /\ SessionsAdded = {}
                  /\ auth'.result.session = NoSession
             ELSE /\ Cardinality(AttemptsAdded) = 1
                  /\ \A a \in AttemptsAdded :
                        /\ a.succeeded <=> GoodCredentials(LoginInput.email,
                                                           LoginInput.password)
                        /\ a.attempted_at = now
                        /\ (SessionsAdded # {}) => a.succeeded
                  /\ Cardinality(SessionsAdded) <= 1
                  /\ (auth'.result.type = "OK") <=> (SessionsAdded # {})]_vars

\* A login was turned away by the rate limiter after five failures, the
\* fifth recorded by a login of this behaviour, and the table holds those
\* five failures and no more.
C39_Witness ==
    /\ auth.result.call = "login"
    /\ auth.result.type = "RateLimited"
    /\ auth.nextId > 5
    /\ Cardinality({a \in auth.login_attempts :
                       ~a.succeeded /\ a.email_hash = Hash("ann@x")
                                    /\ a.attempted_at > now - 15}) = 5

\* The tables a registration writes.
RegisterTables(a) == <<a.households, a.users, a.invites, a.sessions>>

\* Caller p takes the step of Register that stands at pc.
Takes(p, pc) == auth.calls[p].pc = pc /\ auth'.calls[p].at = pc /\ lastOp'.id = p
                   /\ lastOp'.op = pc /\ auth'.calls[p].pc # pc

\* Caller p's Register call returns in this step.
Returns(p) ==
    /\ auth'.calls[p].pc = "done"
    /\ \/ \E pc \in {"GetUserByEmailHash", "GetInviteByToken", "registerFirstUser",
                     "registerViaInvite"} : Takes(p, pc)
       \/ lastOp'.op = "Register" /\ lastOp'.id = p /\ ops' = ops + 1

\* The user rows, soft-deleted ones included, with this normalised email.
Accounts(users, email) == {u \in DOMAIN users : users[u].email_hash = Hash(Normalize(email))}

\* C31: no two user rows ever share a normalised email.  A Register call whose
\* email belongs to an active account when it looks the email up returns
\* Conflict (409); one whose transaction meets any row with the email returns
\* Conflict (409) too, unless the database fails before the INSERT; a call
\* that succeeds found no row and leaves exactly one, so of two concurrent
\* registrations for one email exactly one succeeds.
C31_OneAccountPerEmail ==
    [][/\ \A u, v \in DOMAIN auth'.users :
             auth'.users[u].email_hash = auth'.users[v].email_hash => u = v
       /\ \A p \in Callers :
             LET call == auth'.calls[p]
                 before == Accounts(auth.users, call.input.Email)
             IN  /\ Takes(p, "GetUserByEmailHash")
                       /\ (\E u \in before : auth.users[u].deleted_at = NullInstant)
                    => call.pc = "done" /\ call.type = "Conflict" /\ call.status = 409
                 /\ (Takes(p, "registerFirstUser") \/ Takes(p, "registerViaInvite"))
                       /\ before # {}
                       /\ call.message \notin {"Failed to start transaction",
                                                "Failed to create household"}
                    => call.type = "Conflict" /\ call.status = 409
                 /\ Returns(p) /\ call.type = "OK"
                    => /\ before = {}
                       /\ Cardinality(Accounts(auth'.users, call.input.Email)) = 1
                 /\ Returns(p) /\ call.type = "Conflict"
                    => /\ before # {}
                       /\ RegisterTables(auth') = RegisterTables(auth)]_vars

\* Two registrations for one new email ran concurrently: both found no account
\* before either transaction, one committed and the other's INSERT met the
\* UNIQUE constraint.
C31_Witness ==
    /\ auth.calls[1].pc = "done" /\ auth.calls[2].pc = "done"
    /\ auth.calls[1].input.Email = "eve@x" /\ auth.calls[2].input.Email = "eve@x"
    /\ auth.calls[1].type = "OK"
    /\ auth.calls[2].type = "Conflict" /\ auth.calls[2].status = 409
    /\ auth.calls[2].at \in {"registerFirstUser", "registerViaInvite"}

\* The invites a token opens at instant t: matching, not accepted, not expired.
OpenInvites(invites, token, t) ==
    {i \in DOMAIN invites :
        /\ invites[i].token_hash = Hash(token)
        /\ invites[i].accepted_at = NullInstant
        /\ invites[i].expires_at > t}

\* C36 (the part that holds): a Register call that looks its token up when the
\* invite is already accepted, is expired or does not exist fails with the
\* validation error "Invalid or expired invite link" (400) and creates no user
\* and no session.
C36_ClosedInviteRejected ==
    [][\A p \in Callers :
          LET call == auth'.calls[p]
          IN  Takes(p, "GetInviteByToken")
                 /\ OpenInvites(auth.invites, call.input.InviteToken, now) = {}
              => /\ call.pc = "done"
                 /\ call.type = "Validation" /\ call.status = 400
                 /\ call.message = "Invalid or expired invite link"
                 /\ RegisterTables(auth') = RegisterTables(auth)]_vars

\* A call was turned away with the token of an invite that an earlier
\* registration had accepted.
C36_Witness ==
    \E p \in Callers :
       /\ auth.calls[p].pc = "done"
       /\ auth.calls[p].at = "GetInviteByToken"
       /\ auth.calls[p].type = "Validation"
       /\ \E i \in DOMAIN auth.invites :
             /\ auth.invites[i].token_hash = Hash(auth.calls[p].input.InviteToken)
             /\ auth.invites[i].accepted_at # NullInstant

\* C36 as stated: no invite ever admits more than one registration.
C36_OneRegistrationPerInvite ==
    \A i \in DOMAIN auth.invites :
       Cardinality({r \in auth.registered : r[1] = i}) <= 1

\* C38: a step of a Register call that does not return success leaves the
\* households, users, invites and sessions as they were, whatever step failed;
\* every household has its admin user row, and every accepted invite has the
\* user it admitted.
C38_FailedRegisterLeavesNothing ==
    [][/\ \A p \in Callers :
             (lastOp'.id = p /\ auth'.calls[p] # auth.calls[p]
                 /\ ~(Returns(p) /\ auth'.calls[p].type = "OK"))
             => RegisterTables(auth') = RegisterTables(auth)
       /\ \A h \in auth'.households :
             \E u \in DOMAIN auth'.users :
                auth'.users[u].household_id = h /\ auth'.users[u].role = "admin"
       /\ \A i \in DOMAIN auth'.invites :
             auth'.invites[i].accepted_at # NullInstant
             => \E u \in DOMAIN auth'.users :
                   /\ <<i, u>> \in auth'.registered
                   /\ auth'.users[u].household_id = auth'.invites[i].household_id
                   /\ auth'.users[u].role = auth'.invites[i].role]_vars

\* A registration failed at Commit, after its household, user and session
\* had been written inside the transaction.
C38_Witness ==
    \E p \in Callers :
       /\ auth.calls[p].pc = "done"
       /\ auth.calls[p].type = "Internal"
       /\ auth.calls[p].message = "Failed to commit registration"
       /\ auth.calls[p].at = "registerFirstUser"

\* C32: every session belongs to the household of its user.  A first-user
\* registration that succeeds adds a household, an 'admin' user in it and a
\* session of that user in it; a registration via invite adds a user with the
\* invite's role in the invite's household and a session in it; a login that
\* succeeds returns a session in the user's household; the user list of a
\* household holds only users of that household.
C32_HouseholdScoped ==
    [][/\ \A s \in auth'.sessions :
             /\ s.user_id \in DOMAIN auth'.users
             /\ s.household_id = auth'.users[s.user_id].household_id
       /\ \A h \in auth'.households :
             \A u \in ListUsersByHousehold(auth'.users, h) :
                auth'.users[u].household_id = h
       /\ \A p \in Callers :
             Returns(p) /\ auth'.calls[p].type = "OK"
             => \E u \in DOMAIN auth'.users \ DOMAIN auth.users :
                   LET user == auth'.users[u]
                       new == SessionsAdded
                   IN  /\ DOMAIN auth'.users = DOMAIN auth.users \cup {u}
                       /\ \E s \in new :
                             /\ new = {s}
                             /\ s.id = auth'.calls[p].session
                             /\ s.user_id = u
                             /\ s.household_id = user.household_id
                       /\ IF auth'.calls[p].at = "registerFirstUser"
                            THEN /\ user.role = "admin"
                                 /\ user.household_id \notin auth.households
                                 /\ auth'.households =
                                       auth.households \cup {user.household_id}
                            ELSE /\ user.role = auth.invites[auth'.calls[p].invite].role
                                 /\ user.household_id =
                                       auth.invites[auth'.calls[p].invite].household_id
                                 /\ auth'.households = auth.households
       /\ IsStep("login") /\ auth'.result.type = "OK"
          => \E s \in SessionsAdded :
                /\ s.id = auth'.result.session
                /\ s.household_id = auth.users[s.user_id].household_id]_vars

\* A second household exists, its admin has logged in, and the two household
\* user lists are disjoint.
C32_Witness ==
    /\ Cardinality(auth.households) = 2
    /\ auth.result.call = "login" /\ auth.result.type = "OK"
    /\ \E s \in auth.sessions :
          /\ s.id = auth.result.session
          /\ s.household_id # NewHouseholdId(1)
          /\ ListUsersByHousehold(auth.users, s.household_id) = {s.user_id}

\* The token a request submits: the X-CSRF-Token header, or the _csrf_token
\* form field when the header is empty.
Submitted(request) ==
    IF request.header # Undotted("") THEN request.header ELSE request.form

\* C33: a request with an unsafe method reaches the handler exactly when the
\* _csrf cookie is present, the submitted token is not empty and equals the
\* cookie value, and the cookie value carries a valid signature; otherwise
\* the answer is 403 and the handler is not called.  GET, HEAD and OPTIONS
\* always reach the handler.
C33_CSRFGate ==
    probe.state = "served" =>
       LET request == probe.request
           response == probe.response
           admitted == /\ request.cookie.present
                       /\ Submitted(request) # Undotted("")
                       /\ Submitted(request) = request.cookie.value
                       /\ request.cookie.value.parts = 2
                       /\ request.cookie.value.mac =
                             computeCSRFHMAC(request.cookie.value.nonce, csrfKey)
       IN  IF request.method \in {"GET", "HEAD", "OPTIONS"}
             THEN response.handler = 1
             ELSE IF admitted
                    THEN response.handler = 1 /\ response.status # 403
                    ELSE response.handler = 0 /\ response.status = 403

\* A POST came with a cookie and a matching form field whose value was signed
\* with another key, the header being empty, and was refused.
C33_Witness ==
    /\ probe.state = "served"
    /\ probe.request.method = "POST"
    /\ probe.request.cookie.present
    /\ probe.request.header = Undotted("")
    /\ probe.request.form = probe.request.cookie.value
    /\ probe.request.cookie.value = newSignedToken("n1", "k2")
    /\ probe.response.status = 403

\* The request served in this step.
Served == auth'.result.input

\* The session the cookie names exists, is not expired, and its user is not
\* soft-deleted.
LiveSession(id) ==
    \E s \in auth.sessions :
       /\ s.id = id
       /\ s.expires_at > now
       /\ auth.users[s.user_id].deleted_at = NullInstant

\* C34: LoadSession never answers a request itself and calls next exactly
\* once.  The context holds a user exactly when the cookie is present, its
\* signature verifies and the session is valid; the cookie is cleared exactly
\* when it is present and verification or validation fails; on success and
\* without a cookie no cookie is set.
C34_LoadSession ==
    [][IsStep("serve") =>
         LET loaded == /\ Served.cookie.present
                       /\ Served.cookie.valid
                       /\ LiveSession(Served.cookie.sessionID)
         IN  /\ auth'.result.next = 1
             /\ Served.guard = "none" => auth'.result.handler = 1
                                            /\ auth'.result.status = 200
             /\ Served.user <=> loaded
             /\ loaded => \E s \in auth.sessions :
                             /\ s.id = Served.cookie.sessionID
                             /\ auth'.result.user = s.user_id
             /\ (auth'.result.cookie = "cleared") <=> (Served.cookie.present /\ ~loaded)
             /\ (auth'.result.cookie = "kept") <=> (~Served.cookie.present \/ loaded)]_vars

\* A request came with a correctly signed cookie of a session whose user had
\* been soft-deleted: no user in the context, cookie cleared, handler of the
\* open route called.
C34_Witness ==
    /\ auth.result.call = "serve"
    /\ auth.result.input.cookie.present /\ auth.result.input.cookie.valid
    /\ auth.result.input.cookie.sessionID = 3
    /\ auth.users["u1"].deleted_at # NullInstant
    /\ ~auth.result.input.user
    /\ auth.result.cookie = "cleared"
    /\ auth.result.input.guard = "none" /\ auth.result.handler = 1

\* C35: behind RequireAuth the handler runs exactly when the context holds a
\* user; behind RequireRole(roles) exactly when it holds a user whose role is
\* one of roles.  A request without a user is redirected to /login with 303,
\* or answered 401 with the redirect for HTMX; a user with another role gets
\* 403; in both cases the handler is not called.
C35_Guards ==
    auth.result.call = "serve" /\ auth.result.input.guard # "none" =>
       LET request == auth.result.input
           response == auth.result
           allowed == /\ request.user
                      /\ request.guard = "RequireRole"
                         => auth.users[response.user].role \in request.roles
       IN  /\ response.handler = 1 <=> allowed
           /\ allowed => response.status = 200
           /\ ~request.user =>
                 /\ response.redirect = "/login"
                 /\ response.status = IF request.htmx THEN 401 ELSE 303
           /\ request.user /\ ~allowed =>
                 response.status = 403 /\ response.redirect = NULL

\* An admin asked for a route open to members and caregivers only and got 403.
C35_Witness ==
    /\ auth.result.call = "serve"
    /\ auth.result.input.guard = "RequireRole"
    /\ auth.result.input.user
    /\ auth.result.user = "u1"
    /\ auth.result.status = 403
    /\ auth.result.handler = 0

\* Whether the template or schedule a statement of a run belongs to is active.
KeyActive(k) ==
    CASE k.kind = "task" -> task_templates[k.id].is_active
      [] k.kind = "admin" -> medication_schedules[k.id].is_active
      [] k.kind = "shift" -> shift_templates[k.id].is_active

\* The future pending instances, not soft-deleted, of inactive templates and
\* schedules.
OrphanTasks ==
    {r \in tasks : /\ ~task_templates[r.template_id].is_active
                   /\ r.due_at > now /\ ~r.completed /\ ~r.skipped /\ ~r.deleted}

OrphanAdministrations ==
    {r \in medication_administrations :
        /\ r.schedule_id \in DOMAIN medication_schedules
        /\ ~medication_schedules[r.schedule_id].is_active
        /\ r.scheduled_at > now /\ r.status = "pending" /\ ~r.deleted}

OrphanShifts ==
    {r \in shifts : /\ ~shift_templates[r.template_id].is_active
                    /\ r.starts_at > now /\ r.status = "scheduled" /\ ~r.deleted}

\* C37 (the part that holds): when a deactivation with its cleanup completes,
\* no future pending instance of the deactivated template or schedule is
\* left; a run that starts afterwards attempts nothing for it; and an
\* instance of an inactive template or schedule appears only through an
\* INSERT of a run that had read it as active.
C37_CleanupAtDeactivation ==
    [][/\ IsStep("deactivate") =>
             {r \in OrphanTasks' : r.template_id = lastOp'.id} = {}
       /\ IsStep("deactivateSchedule") =>
             {r \in OrphanAdministrations' : r.schedule_id = lastOp'.id} = {}
       /\ IsStep("deactivateShiftTemplate") =>
             {r \in OrphanShifts' : r.template_id = lastOp'.id} = {}
       /\ \A w \in Runners :
             runs[w].pc = "idle" /\ runs'[w].pc = "running"
             => \A k \in runs'[w].keys : KeyActive(k)
       /\ (OrphanTasks' \ OrphanTasks # {}
              \/ OrphanAdministrations' \ OrphanAdministrations # {}
              \/ OrphanShifts' \ OrphanShifts # {})
          => \E w \in Runners : runs'[w].made # runs[w].made]_vars

\* A template was deactivated and cleaned up while the scheduler's run, which
\* had read it as active, still had statements to issue for it.
C37_Witness ==
    /\ lastOp.op = "deactivate"
    /\ ~task_templates[lastOp.id].is_active
    /\ runs["scheduler"].pc = "running"
    /\ \E k \in runs["scheduler"].todo : k.kind = "task" /\ k.id = lastOp.id
    /\ OrphanTasks = {}

\* C37 as stated: no state holds a future pending instance of an inactive
\* template or schedule.
C37_NoInstanceWhileInactive ==
    OrphanTasks = {} /\ OrphanAdministrations = {} /\ OrphanShifts = {}

====
